---- MODULE Spec2Model ----
(***************************************************************************)
(* A model of the rust-routeviews wrapper around libbgpstream:             *)
(*   Query (src/src/stream.rs)     the accumulator of filters, interval,   *)
(*                                 RIB period and data interface options   *)
(*   BgpStream (src/src/stream.rs) the stream handle, its construction,    *)
(*                                 its flattening iterator and its drop    *)
(*   Record (src/src/record.rs)    one pulled record                       *)
(*   Element (src/src/element.rs)  one decoded element                     *)
(* libbgpstream itself is the environment: every call the wrapper makes    *)
(* is appended to `log` with the value libbgpstream returned.              *)
(***************************************************************************)
EXTENDS Integers, Sequences, FiniteSets, TLC

VARIABLES
    query,           \* the caller's Query
    phase,           \* "building" | "open" | "failed" | "dropped"
    run_result,      \* what Query::run returned: "pending", "Ok" or the error
    log,             \* every libbgpstream call made so far: [op, args, ret, h, held]
    feed,            \* libbgpstream: the record pulls still to be answered
    ds_gen,          \* libbgpstream: generation of the record handle last returned
    ds_elems,        \* libbgpstream: the elements left in that record
    current_record,  \* BgpStream.current_record
    borrowed,        \* the Record<'a> next_record() handed to the caller
    hist,            \* one entry per demand made by the caller, with its result
    feed0            \* the feed as it was when the stream started

vars == <<query, phase, run_result, log, feed, ds_gen, ds_elems,
          current_record, borrowed, hist, feed0>>

(***************************************************************************)
(* Bounds of the model.                                                    *)
(***************************************************************************)
MaxFilters == 2      \* filter entries a Query accumulates
MaxOptions == 2      \* data interface option triples a Query accumulates
MaxFeed == 4         \* records plus elements libbgpstream holds
MaxDemands == 5      \* demands a caller makes on one stream
MaxStatus == 8       \* record status codes drawn: 0..MaxStatus
MaxTag == 5          \* element type tags drawn: 0..MaxTag
MaxCode == 9         \* peer-state codes drawn: 0..MaxCode
MaxOrigin == 3       \* origin codes drawn: 0..MaxOrigin
MaxPath == 3         \* entries laid out in an AS path or a community set
MaxType == 2         \* record type tags drawn: 0..MaxType
MaxName == 3         \* capacity of a record's name buffers, in bytes
MaxReads == 1        \* metadata accessors a caller calls on one stream

(***************************************************************************)
(* Values of libbgpstream's enumerations, as the bindings import them.     *)
(***************************************************************************)
RECORD_STATUS_VALID_RECORD == 0
RECORD_STATUS_FILTERED_SOURCE == 1
RECORD_STATUS_EMPTY_SOURCE == 2
RECORD_STATUS_OUTSIDE_TIME_INTERVAL == 3
RECORD_STATUS_CORRUPTED_SOURCE == 4
RECORD_STATUS_CORRUPTED_RECORD == 5
RECORD_STATUS_UNSUPPORTED_RECORD == 6

BGPSTREAM_UPDATE == 0
BGPSTREAM_RIB == 1

ELEM_TYPE_RIB == 1
ELEM_TYPE_ANNOUNCEMENT == 2
ELEM_TYPE_WITHDRAWAL == 3
ELEM_TYPE_PEERSTATE == 4

ADDR_VERSION_IPV4 == 2
ADDR_VERSION_IPV6 == 10

ORIGIN_IGP == 0
ORIGIN_EGP == 1
ORIGIN_INCOMPLETE == 2

ELEM_PEERSTATE_UNKNOWN == 0
ELEM_PEERSTATE_IDLE == 1
ELEM_PEERSTATE_CONNECT == 2
ELEM_PEERSTATE_ACTIVE == 3
ELEM_PEERSTATE_OPENSENT == 4
ELEM_PEERSTATE_OPENCONFIRM == 5
ELEM_PEERSTATE_ESTABLISHED == 6
ELEM_PEERSTATE_CLEARING == 7
ELEM_PEERSTATE_DELETED == 8

(***************************************************************************)
(* Option<T>: None is the empty sequence, Some(x) the sequence <<x>>.      *)
(***************************************************************************)
None == <<>>
Some(x) == <<x>>
IsSome(o) == Len(o) = 1

(***************************************************************************)
(* Query: the accumulator and its builder methods.                         *)
(***************************************************************************)

\* FilterInterval.  An OffsetDateTime is written by its Unix timestamp, an
\* i64 n, as [hi |-> n div 2^32, lo |-> n mod 2^32].
Open == [kind |-> "Open"]
Interval(start, stop) == [kind |-> "Interval", start |-> start, stop |-> stop]
Since(amount, unit, live) ==
    [kind |-> "Since", amount |-> amount, unit |-> unit, live |-> live]

TimeUnit == {"Seconds", "Minutes", "Hours", "Days"}

\* Query::new / Default for Query
QueryNew ==
    [filters |-> <<>>, interval |-> Open, rib_period |-> None,
     data_interface_options |-> <<>>]

\* a filter method with a slip: the entry is put in front of the list
PushFilter_Prepend(q, type, value) ==
    [q EXCEPT !.filters = <<<<type, value>>>> \o @]

\* every Query method that pushes onto `filters`: the filter type the method
\* names and the CString made of its argument
PushFilter(q, type, value) ==
    [q EXCEPT !.filters = Append(@, <<type, value>>)]

\* Query::interval
SetInterval(q, interval) == [q EXCEPT !.interval = interval]

\* Query::rib_period
SetRibPeriod(q, secs) == [q EXCEPT !.rib_period = Some(secs)]

\* Query::set_data_interface_option
SetDataInterfaceOption(q, interface_name, option, value) ==
    [q EXCEPT !.data_interface_options =
                  Append(@, <<interface_name, option, value>>)]

\* Query::cache with a slip: the triple replaces the ones pushed before
Cache_Replace(q, dir) ==
    [q EXCEPT !.data_interface_options = <<<<"broker", "cache-dir", dir>>>>]

\* Query::cache
Cache(q, dir) ==
    [q EXCEPT !.data_interface_options =
                  Append(@, <<"broker", "cache-dir", dir>>)]

(***************************************************************************)
(* libbgpstream's answers to the configuration calls of BgpStream::new.    *)
(* An oracle [failAt, how] makes libbgpstream refuse the call made at      *)
(* position failAt of the log (0: it refuses none) and accept every other; *)
(* `how` picks which of the refusing return values it gives.               *)
(***************************************************************************)
ConfigOps ==
    {"bgpstream_create", "bgpstream_add_filter", "bgpstream_add_interval_filter",
     "bgpstream_add_recent_interval_filter", "bgpstream_add_rib_period_filter",
     "bgpstream_get_data_interface_id_by_name",
     "bgpstream_get_data_interface_option_by_name",
     "bgpstream_set_data_interface_option", "bgpstream_start"}

\* the calls that report success by 1, and those that return an id or a
\* pointer, which is 0 (NULL) when there is none
ReturnsOneOnSuccess ==
    {"bgpstream_add_filter", "bgpstream_add_interval_filter",
     "bgpstream_add_recent_interval_filter", "bgpstream_add_rib_period_filter"}
ReturnsHandle ==
    {"bgpstream_create", "bgpstream_get_data_interface_id_by_name",
     "bgpstream_get_data_interface_option_by_name"}

AcceptValue(op) == IF op \in ReturnsOneOnSuccess \cup ReturnsHandle THEN 1 ELSE 0

RefuseValue(op, how) ==
    IF op \in ReturnsHandle THEN 0
    ELSE IF op \in ReturnsOneOnSuccess THEN (IF how = 1 THEN 0 ELSE -1)
    ELSE (IF how = 1 THEN -1 ELSE 1)

Accepted(op, ret) == ret = AcceptValue(op)

DsReturn(op, pos, orc) ==
    IF pos = orc.failAt THEN RefuseValue(op, orc.how) ELSE AcceptValue(op)

(***************************************************************************)
(* BgpStream::new, one step at a time.  s = [log, err] is the log of calls *)
(* so far and the error of the early return taken, NoErr while none is.    *)
(***************************************************************************)
NoErr == <<>>

Call(s, op, args, ret) ==
    [s EXCEPT !.log = Append(@, [op |-> op, args |-> args, ret |-> ret, h |-> 0,
                                 held |-> FALSE])]

Fail(s, e) == [s EXCEPT !.err = e]

\* byte strings that hold an interior NUL byte
NulStrings == {"nul\\0byte"}

\* CString::new: refuses bytes that contain a NUL
CStringNew(bytes) ==
    IF bytes \in NulStrings THEN [ok |-> FALSE, value |-> bytes]
    ELSE [ok |-> TRUE, value |-> bytes]

\* `i64 as u32` with a slip: a number outside 0 .. 2^32 - 1 becomes 0
AsU32_Clamp(t) == IF t.hi = 0 THEN t.lo ELSE 0

\* `i64 as u32`: the low 32 bits
AsU32(t) == t.lo

\* Display for TimeUnit with a slip: the unit is written out as a word
TimeUnitStr_Word(unit) ==
    CASE unit = "Seconds" -> "seconds"
      [] unit = "Minutes" -> "minutes"
      [] unit = "Hours" -> "hours"
      [] unit = "Days" -> "days"

\* Display for TimeUnit
TimeUnitStr(unit) ==
    CASE unit = "Seconds" -> "s"
      [] unit = "Minutes" -> "m"
      [] unit = "Hours" -> "h"
      [] unit = "Days" -> "d"

\* AddFilters with a slip: an entry equal to an earlier one is not forwarded
RECURSIVE AddFilters_Dedup(_, _, _, _)
AddFilters_Dedup(s, filters, i, orc) ==
    IF i > Len(filters) THEN s
    ELSE IF \E j \in 1..(i - 1) : filters[j] = filters[i]
        THEN AddFilters_Dedup(s, filters, i + 1, orc)
    ELSE LET res == DsReturn("bgpstream_add_filter", Len(s.log) + 1, orc)
             s1 == Call(s, "bgpstream_add_filter", <<filters[i][1], filters[i][2]>>, res)
         IN  IF res # 1 THEN Fail(s1, <<"AddFilter">>)
             ELSE AddFilters_Dedup(s1, filters, i + 1, orc)

\* the loop over query.filters
RECURSIVE AddFilters(_, _, _, _)
AddFilters(s, filters, i, orc) ==
    IF i > Len(filters) THEN s
    ELSE LET filter_value == CStringNew(filters[i][2])
             res == DsReturn("bgpstream_add_filter", Len(s.log) + 1, orc)
             s1 == Call(s, "bgpstream_add_filter",
                        <<filters[i][1], filter_value.value>>, res)
         IN  IF ~filter_value.ok THEN Fail(s, <<"StringContainsNull">>)
             ELSE IF res # 1 THEN Fail(s1, <<"AddFilter">>)
             ELSE AddFilters(s1, filters, i + 1, orc)

\* the match on query.interval
ApplyInterval(s, interval, orc) ==
    IF s.err # NoErr THEN s
    ELSE IF interval.kind = "Open" THEN s
    ELSE IF interval.kind = "Interval" THEN
        LET start == AsU32(interval.start)
            stop == IF IsSome(interval.stop) THEN AsU32(interval.stop[1]) ELSE 0
            res == DsReturn("bgpstream_add_interval_filter", Len(s.log) + 1, orc)
            s1 == Call(s, "bgpstream_add_interval_filter", <<start, stop>>, res)
        IN  IF res # 1 THEN Fail(s1, <<"AddInterval">>) ELSE s1
    ELSE
        LET descr == ToString(interval.amount) \o " " \o TimeUnitStr(interval.unit)
            islive == IF interval.live THEN 1 ELSE 0
            res == DsReturn("bgpstream_add_recent_interval_filter",
                            Len(s.log) + 1, orc)
            s1 == Call(s, "bgpstream_add_recent_interval_filter",
                       <<descr, islive>>, res)
        IN  IF res # 1 THEN Fail(s1, <<"AddRecentInterval">>) ELSE s1

\* the `if let Some(period) = query.rib_period`
ApplyRibPeriod(s, rib_period, orc) ==
    IF s.err # NoErr \/ ~IsSome(rib_period) THEN s
    ELSE LET res == DsReturn("bgpstream_add_rib_period_filter", Len(s.log) + 1, orc)
             s1 == Call(s, "bgpstream_add_rib_period_filter", <<rib_period[1]>>, res)
         IN  IF res # 1 THEN Fail(s1, <<"AddRibPeriod">>) ELSE s1

\* SetOneOption with a slip: a triple whose interface or option is not
\* found is skipped and the loop goes on
SetOneOption_SkipUnknown(s, triple, orc) ==
    LET if_id == DsReturn("bgpstream_get_data_interface_id_by_name",
                          Len(s.log) + 1, orc)
        s1 == Call(s, "bgpstream_get_data_interface_id_by_name", <<triple[1]>>, if_id)
        opt == DsReturn("bgpstream_get_data_interface_option_by_name",
                        Len(s1.log) + 1, orc)
        s2 == Call(s1, "bgpstream_get_data_interface_option_by_name",
                   <<if_id, triple[2]>>, opt)
        res == DsReturn("bgpstream_set_data_interface_option", Len(s2.log) + 1, orc)
        s3 == Call(s2, "bgpstream_set_data_interface_option",
                   <<opt, triple[3]>>, res)
    IN  IF if_id = 0 THEN s1
        ELSE IF opt = 0 THEN s2
        ELSE IF res # 0 THEN Fail(s3, <<"SetInterfaceOption">>)
        ELSE s3

\* the body of the loop over query.data_interface_options, for one triple
SetOneOption(s, triple, orc) ==
    LET if_id == DsReturn("bgpstream_get_data_interface_id_by_name",
                          Len(s.log) + 1, orc)
        s1 == Call(s, "bgpstream_get_data_interface_id_by_name", <<triple[1]>>, if_id)
        opt == DsReturn("bgpstream_get_data_interface_option_by_name",
                        Len(s1.log) + 1, orc)
        s2 == Call(s1, "bgpstream_get_data_interface_option_by_name",
                   <<if_id, triple[2]>>, opt)
        s_value == CStringNew(triple[3])
        res == DsReturn("bgpstream_set_data_interface_option", Len(s2.log) + 1, orc)
        s3 == Call(s2, "bgpstream_set_data_interface_option",
                   <<opt, s_value.value>>, res)
    IN  IF if_id = 0 THEN Fail(s1, <<"InterfaceNotFound", triple[1]>>)
        ELSE IF opt = 0 THEN Fail(s2, <<"InterfaceOptionNotFound", triple[2]>>)
        ELSE IF ~s_value.ok THEN Fail(s2, <<"StringContainsNull">>)
        ELSE IF res # 0 THEN Fail(s3, <<"SetInterfaceOption">>)
        ELSE s3

\* the loop over query.data_interface_options
RECURSIVE SetOptions(_, _, _, _)
SetOptions(s, options, i, orc) ==
    IF s.err # NoErr \/ i > Len(options) THEN s
    ELSE SetOptions(SetOneOption(s, options[i], orc), options, i + 1, orc)

\* Start with a slip: the stream is started although a step before failed
Start_Always(s, orc) ==
    LET res == DsReturn("bgpstream_start", Len(s.log) + 1, orc)
        s1 == Call(s, "bgpstream_start", <<>>, res)
    IN  IF s.err # NoErr THEN [s1 EXCEPT !.err = s.err]
        ELSE IF res # 0 THEN Fail(s1, <<"Start">>) ELSE s1

\* Start with a slip: once started, the source is probed with a record pull
Start_ProbesSource(s, orc) ==
    IF s.err # NoErr THEN s
    ELSE LET res == DsReturn("bgpstream_start", Len(s.log) + 1, orc)
             s1 == Call(s, "bgpstream_start", <<>>, res)
         IN  IF res # 0 THEN Fail(s1, <<"Start">>)
             ELSE Call(s1, "bgpstream_get_next_record", <<>>, 1)

\* bgpstream_start and its check
Start(s, orc) ==
    IF s.err # NoErr THEN s
    ELSE LET res == DsReturn("bgpstream_start", Len(s.log) + 1, orc)
             s1 == Call(s, "bgpstream_start", <<>>, res)
         IN  IF res # 0 THEN Fail(s1, <<"Start">>) ELSE s1

\* Drop for BgpStream
DropLog(l) ==
    Append(l, [op |-> "bgpstream_destroy", args |-> <<>>, ret |-> 0, h |-> 0,
               held |-> FALSE])

\* DropOnEarlyReturn with a slip: the handle leaks on an early return
DropOnEarlyReturn_Leak(l) == l

\* what happens to the local `s: BgpStream` when BgpStream::new returns
\* early: it goes out of scope and is dropped
DropOnEarlyReturn(l) == DropLog(l)

\* BgpStream::new: the calls made and the value returned
BgpStreamNew(q, orc) ==
    LET bs == DsReturn("bgpstream_create", 1, orc)
        s0 == Call([log |-> <<>>, err |-> NoErr], "bgpstream_create", <<>>, bs)
        s1 == AddFilters(s0, q.filters, 1, orc)
        s2 == ApplyInterval(s1, q.interval, orc)
        s3 == ApplyRibPeriod(s2, q.rib_period, orc)
        s4 == SetOptions(s3, q.data_interface_options, 1, orc)
        s5 == Start(s4, orc)
    IN  IF bs = 0 THEN [log |-> s0.log, result |-> <<"Err", "Create">>]
        ELSE IF s5.err # NoErr
             THEN [log |-> DropOnEarlyReturn(s5.log), result |-> <<"Err">> \o s5.err]
             ELSE [log |-> s5.log, result |-> <<"Ok">>]

(***************************************************************************)
(* Results.  Result<Option<T>, BgpStreamError> and the iterator's          *)
(* Option<Result<T, BgpStreamError>> are both one of: nothing, a value, an *)
(* error.                                                                  *)
(***************************************************************************)
RNone == [tag |-> "None", val |-> None, err |-> NoErr]
RSome(x) == [tag |-> "Some", val |-> Some(x), err |-> NoErr]
RErr(e) == [tag |-> "Err", val |-> None, err |-> e]

(***************************************************************************)
(* Decoders of lib.rs and element.rs.                                      *)
(***************************************************************************)
Reverse(seq) == [i \in 1..Len(seq) |-> seq[Len(seq) + 1 - i]]

\* parse_bgpstream_ip.  A raw address is [version, bytes]: the version tag
\* and the 16 bytes of the union as they lie in memory.  The IPv4 arm reads
\* the first four bytes as the native u32 `s_addr` and Ipv4Addr::from(u32)
\* takes that number's big-endian bytes as the octets: on a little-endian
\* target the octets come out in reverse memory order.
parse_bgpstream_ip(ip) ==
    IF ip.version = ADDR_VERSION_IPV4
        THEN RSome([family |-> "V4", octets |-> Reverse(SubSeq(ip.bytes, 1, 4))])
    ELSE IF ip.version = ADDR_VERSION_IPV6
        THEN RSome([family |-> "V6", octets |-> ip.bytes])
    ELSE RErr(<<"InvalidIpAddress">>)

\* IpNet::new: the prefix length must fit the family
MaxPrefixLen(addr) == IF addr.family = "V4" THEN 32 ELSE 128

\* parse_bgpstream_prefix
parse_bgpstream_prefix(prefix) ==
    LET ip == parse_bgpstream_ip(prefix.address)
    IN  IF ip.tag = "Err" THEN ip
        ELSE IF prefix.mask_len > MaxPrefixLen(ip.val[1])
            THEN RErr(<<"InvalidMaskLen">>)
        ELSE RSome([addr |-> ip.val[1], prefix_len |-> prefix.mask_len])

\* TryFrom<u32> for PeerState with a slip: OPENCONFIRM is taken for OpenSent
PeerStateTryFrom_Merged(value) ==
    CASE value = ELEM_PEERSTATE_ACTIVE -> RSome("Active")
      [] value = ELEM_PEERSTATE_CLEARING -> RSome("Clearing")
      [] value = ELEM_PEERSTATE_CONNECT -> RSome("Connect")
      [] value = ELEM_PEERSTATE_DELETED -> RSome("Deleted")
      [] value = ELEM_PEERSTATE_ESTABLISHED -> RSome("Established")
      [] value = ELEM_PEERSTATE_IDLE -> RSome("Idle")
      [] value = ELEM_PEERSTATE_OPENCONFIRM -> RSome("OpenSent")
      [] value = ELEM_PEERSTATE_OPENSENT -> RSome("OpenSent")
      [] value = ELEM_PEERSTATE_UNKNOWN -> RSome("Unknown")
      [] OTHER -> RErr(<<"UnknownPeerState">>)

\* TryFrom<u32> for PeerState
PeerStateTryFrom(value) ==
    CASE value = ELEM_PEERSTATE_ACTIVE -> RSome("Active")
      [] value = ELEM_PEERSTATE_CLEARING -> RSome("Clearing")
      [] value = ELEM_PEERSTATE_CONNECT -> RSome("Connect")
      [] value = ELEM_PEERSTATE_DELETED -> RSome("Deleted")
      [] value = ELEM_PEERSTATE_ESTABLISHED -> RSome("Established")
      [] value = ELEM_PEERSTATE_IDLE -> RSome("Idle")
      [] value = ELEM_PEERSTATE_OPENCONFIRM -> RSome("OpenConfirm")
      [] value = ELEM_PEERSTATE_OPENSENT -> RSome("OpenSent")
      [] value = ELEM_PEERSTATE_UNKNOWN -> RSome("Unknown")
      [] OTHER -> RErr(<<"UnknownPeerState">>)

\* TryFrom<u32> for OriginType
OriginTypeTryFrom(value) ==
    CASE value = ORIGIN_EGP -> RSome("Egp")
      [] value = ORIGIN_IGP -> RSome("Igp")
      [] value = ORIGIN_INCOMPLETE -> RSome("Incomplete")
      [] OTHER -> RErr(<<"UnknownOriginType">>)

\* String::from_utf8 on the bytes s from index i on: well-formed UTF-8
RECURSIVE Utf8Valid(_, _)
Utf8Valid(s, i) ==
    IF i > Len(s) THEN TRUE
    ELSE LET b == s[i]
             cont(j, lo, hi) == j <= Len(s) /\ s[j] >= lo /\ s[j] <= hi
         IN  CASE b < 128 -> Utf8Valid(s, i + 1)
               [] b \in 194..223 -> cont(i + 1, 128, 191) /\ Utf8Valid(s, i + 2)
               [] b = 224 -> /\ cont(i + 1, 160, 191) /\ cont(i + 2, 128, 191)
                             /\ Utf8Valid(s, i + 3)
               [] b \in (225..236) \cup (238..239) ->
                             /\ cont(i + 1, 128, 191) /\ cont(i + 2, 128, 191)
                             /\ Utf8Valid(s, i + 3)
               [] b = 237 -> /\ cont(i + 1, 128, 159) /\ cont(i + 2, 128, 191)
                             /\ Utf8Valid(s, i + 3)
               [] b = 240 -> /\ cont(i + 1, 144, 191) /\ cont(i + 2, 128, 191)
                             /\ cont(i + 3, 128, 191) /\ Utf8Valid(s, i + 4)
               [] b \in 241..243 ->
                             /\ cont(i + 1, 128, 191) /\ cont(i + 2, 128, 191)
                             /\ cont(i + 3, 128, 191) /\ Utf8Valid(s, i + 4)
               [] b = 244 -> /\ cont(i + 1, 128, 143) /\ cont(i + 2, 128, 191)
                             /\ cont(i + 3, 128, 191) /\ Utf8Valid(s, i + 4)
               [] OTHER -> FALSE

\* the bytes handed to CString::new(..).expect(..) and then to into_string():
\* a NUL among them panics, ill-formed UTF-8 is an IntoStringError
CStringIntoString(bytes) ==
    IF \E i \in DOMAIN bytes : bytes[i] = 0
    THEN [tag |-> "Panic", val |-> None, err |-> <<"already checked">>]
    ELSE IF Utf8Valid(bytes, 1) THEN RSome(bytes)
    ELSE RErr(<<"IntoStringError">>)

\* array_to_string with a slip: the whole buffer is converted
array_to_string_WholeBuffer(array) == CStringIntoString(array)

\* array_to_string: the bytes of the buffer before its first NUL, as a String
array_to_string(array) ==
    LET zeros == {i \in DOMAIN array : array[i] = 0}
        null_pos == IF zeros = {} THEN Len(array)
                    ELSE (CHOOSE i \in zeros : \A j \in zeros : i <= j) - 1
    IN  CStringIntoString(SubSeq(array, 1, null_pos))

\* parse_as_path_seg: a raw segment is [null, is_asn, asn, asn_cnt, set]
parse_as_path_seg(seg) ==
    IF seg.is_asn THEN [variant |-> "Num", asn |-> seg.asn, list |-> <<>>]
    ELSE [variant |-> "Set", asn |-> 0, list |-> SubSeq(seg.set, 1, seg.asn_cnt)]

\* extract_as_path with a slip: a null segment is stepped over
RECURSIVE extract_as_path_SkipNull(_, _)
extract_as_path_SkipNull(as_path, i) ==
    IF i > Len(as_path) THEN <<>>
    ELSE IF as_path[i].null THEN extract_as_path_SkipNull(as_path, i + 1)
    ELSE <<parse_as_path_seg(as_path[i])>> \o extract_as_path_SkipNull(as_path, i + 1)

\* extract_as_path: bgpstream_as_path_get_next_seg at cursor i, until it
\* returns NULL (a null segment, or the end of the path)
RECURSIVE extract_as_path(_, _)
extract_as_path(as_path, i) ==
    IF i > Len(as_path) \/ as_path[i].null THEN <<>>
    ELSE <<parse_as_path_seg(as_path[i])>> \o extract_as_path(as_path, i + 1)

\* extract_communities with a slip: the all-zero community ends the list
RECURSIVE extract_communities_ZeroEnds(_, _)
extract_communities_ZeroEnds(communities, i) ==
    IF i > Len(communities) \/ communities[i].null
       \/ (communities[i].asn = 0 /\ communities[i].value = 0) THEN <<>>
    ELSE <<<<communities[i].asn, communities[i].value>>>>
             \o extract_communities_ZeroEnds(communities, i + 1)

\* extract_communities: bgpstream_community_set_get at index i, until it
\* returns NULL
RECURSIVE extract_communities(_, _)
extract_communities(communities, i) ==
    IF i > Len(communities) \/ communities[i].null THEN <<>>
    ELSE <<<<communities[i].asn, communities[i].value>>>>
             \o extract_communities(communities, i + 1)

\* OffsetDateTime::from_unix_timestamp(secs) + Duration::from_micros(micros):
\* a point in time, kept as whole seconds since the epoch and the
\* microseconds within the second
TimeOf(secs, micros) ==
    [secs |-> secs + (micros \div 1000000), micros |-> micros % 1000000]

\* DecodeUpdate with a slip: the origin code is converted whether or not
\* the element has an origin
DecodeUpdate_OriginAlways(elem) ==
    LET prefix == parse_bgpstream_prefix(elem.prefix)
        next_hop == parse_bgpstream_ip(elem.nexthop)
        origin == OriginTypeTryFrom(elem.origin)
    IN  IF prefix.tag = "Err" THEN prefix
        ELSE IF next_hop.tag = "Err" THEN next_hop
        ELSE IF origin.tag = "Err" THEN origin
        ELSE RSome([prefix |-> prefix.val[1],
                    next_hop |-> next_hop.val[1],
                    as_path |-> extract_as_path(elem.as_path, 1),
                    communities |-> extract_communities(elem.communities, 1),
                    origin_type |-> IF elem.has_origin # 0 THEN origin.val ELSE None,
                    med |-> IF elem.has_med # 0 THEN Some(elem.med) ELSE None,
                    local_pref |-> IF elem.has_local_pref # 0
                                   THEN Some(elem.local_pref) ELSE None])

\* the Update built for an announcement or a RIB element
DecodeUpdate(elem) ==
    LET prefix == parse_bgpstream_prefix(elem.prefix)
        next_hop == parse_bgpstream_ip(elem.nexthop)
        origin == OriginTypeTryFrom(elem.origin)
    IN  IF prefix.tag = "Err" THEN prefix
        ELSE IF next_hop.tag = "Err" THEN next_hop
        ELSE IF elem.has_origin # 0 /\ origin.tag = "Err" THEN origin
        ELSE RSome([prefix |-> prefix.val[1],
                    next_hop |-> next_hop.val[1],
                    as_path |-> extract_as_path(elem.as_path, 1),
                    communities |-> extract_communities(elem.communities, 1),
                    origin_type |-> IF elem.has_origin # 0 THEN origin.val ELSE None,
                    med |-> IF elem.has_med # 0 THEN Some(elem.med) ELSE None,
                    local_pref |-> IF elem.has_local_pref # 0
                                   THEN Some(elem.local_pref) ELSE None])

\* the match on elem.type_ with a slip: a withdrawal decodes the whole
\* update and keeps its prefix
DecodeElementType_WithdrawalAsUpdate(elem) ==
    IF elem.type_ \in {ELEM_TYPE_ANNOUNCEMENT, ELEM_TYPE_RIB} THEN
        LET update == DecodeUpdate(elem)
        IN  IF update.tag = "Err" THEN update
            ELSE RSome([variant |-> IF elem.type_ = ELEM_TYPE_ANNOUNCEMENT
                                    THEN "Announcement" ELSE "RIB",
                        payload |-> update.val[1]])
    ELSE IF elem.type_ = ELEM_TYPE_PEERSTATE THEN
        LET from == PeerStateTryFrom(elem.old_state)
            to == PeerStateTryFrom(elem.new_state)
        IN  IF from.tag = "Err" THEN from
            ELSE IF to.tag = "Err" THEN to
            ELSE RSome([variant |-> "PeerState",
                        payload |-> [from |-> from.val[1], to |-> to.val[1]]])
    ELSE IF elem.type_ = ELEM_TYPE_WITHDRAWAL THEN
        LET update == DecodeUpdate(elem)
        IN  IF update.tag = "Err" THEN update
            ELSE RSome([variant |-> "Withdrawal", payload |-> update.val[1].prefix])
    ELSE RErr(<<"UnknownElementType">>)

\* the match on elem.type_
DecodeElementType(elem) ==
    IF elem.type_ \in {ELEM_TYPE_ANNOUNCEMENT, ELEM_TYPE_RIB} THEN
        LET update == DecodeUpdate(elem)
        IN  IF update.tag = "Err" THEN update
            ELSE RSome([variant |-> IF elem.type_ = ELEM_TYPE_ANNOUNCEMENT
                                    THEN "Announcement" ELSE "RIB",
                        payload |-> update.val[1]])
    ELSE IF elem.type_ = ELEM_TYPE_PEERSTATE THEN
        LET from == PeerStateTryFrom(elem.old_state)
            to == PeerStateTryFrom(elem.new_state)
        IN  IF from.tag = "Err" THEN from
            ELSE IF to.tag = "Err" THEN to
            ELSE RSome([variant |-> "PeerState",
                        payload |-> [from |-> from.val[1], to |-> to.val[1]]])
    ELSE IF elem.type_ = ELEM_TYPE_WITHDRAWAL THEN
        LET prefix == parse_bgpstream_prefix(elem.prefix)
        IN  IF prefix.tag = "Err" THEN prefix
            ELSE RSome([variant |-> "Withdrawal", payload |-> prefix.val[1]])
    ELSE RErr(<<"UnknownElementType">>)

\* DecodeElement with a slip: the element always takes the record's time
DecodeElement_RecordTime(record_time, elem) ==
    LET peer_ip == parse_bgpstream_ip(elem.peer_ip)
        e == DecodeElementType(elem)
    IN  IF peer_ip.tag = "Err" THEN peer_ip
        ELSE IF e.tag = "Err" THEN e
        ELSE RSome([time |-> record_time, peer_ip |-> peer_ip.val[1],
                    peer_asn |-> elem.peer_asn, e |-> e.val[1]])

\* Element::new after the pull: the decode of the element libbgpstream
\* returned, for a record whose time is record_time
DecodeElement(record_time, elem) ==
    LET time == IF elem.orig_time_sec = 0 THEN record_time
                ELSE TimeOf(elem.orig_time_sec, elem.orig_time_usec)
        peer_ip == parse_bgpstream_ip(elem.peer_ip)
        e == DecodeElementType(elem)
    IN  IF peer_ip.tag = "Err" THEN peer_ip
        ELSE IF e.tag = "Err" THEN e
        ELSE RSome([time |-> time, peer_ip |-> peer_ip.val[1],
                    peer_asn |-> elem.peer_asn, e |-> e.val[1]])

(***************************************************************************)
(* libbgpstream's pull primitives.  A pending pull of `feed` is the raw    *)
(* record [res, null, status, time_sec, time_usec, elems]: the return      *)
(* code, whether the record pointer is left NULL, and the record.  An      *)
(* exhausted feed answers 0 (end of stream) for good.  Each record         *)
(* returned invalidates the one before: its handle is the generation       *)
(* number ds_gen.  st = [cur, feed, gen, elems, log] is the stream's       *)
(* current_record together with libbgpstream's state and the log.  A pull  *)
(* is logged with the record handle h it returned or was made on, and with *)
(* `held`: whether the stream held a current record when it was made.      *)
(***************************************************************************)
LogPull(st, op, ret, h) ==
    Append(st.log, [op |-> op, args |-> <<>>, ret |-> ret, h |-> h,
                    held |-> IsSome(st.cur)])

\* bgpstream_get_next_record: [res, p_record, rec] and the state after it
GetNextRecord(st) ==
    IF st.feed = <<>> THEN
        [res |-> 0, p_record |-> 0, rec |-> <<>>,
         st |-> [st EXCEPT !.log = LogPull(st, "bgpstream_get_next_record", 0, 0)]]
    ELSE
        LET rec == Head(st.feed)
            given == rec.res > 0 /\ ~rec.null
            p_record == IF given THEN st.gen + 1 ELSE 0
        IN  [res |-> rec.res, p_record |-> p_record, rec |-> <<rec>>,
             st |-> [st EXCEPT
                        !.feed = Tail(@),
                        !.gen = IF given THEN @ + 1 ELSE @,
                        !.elems = IF given THEN rec.elems ELSE @,
                        !.log = LogPull(st, "bgpstream_get_next_record",
                                        rec.res, p_record)]]

\* bgpstream_record_get_next_elem on the handle p_record: [res, null, elem]
\* and the state after it.  libbgpstream keeps one record per stream, so
\* whatever handle is passed the pull is served from the record it holds.
GetNextElem(st, p_record) ==
    IF st.elems = <<>> THEN
        [res |-> 0, null |-> TRUE, elem |-> <<>>,
         st |-> [st EXCEPT
                    !.log = LogPull(st, "bgpstream_record_get_next_elem", 0, p_record)]]
    ELSE
        LET elem == Head(st.elems)
        IN  [res |-> elem.res, null |-> elem.res # 1 \/ elem.null, elem |-> <<elem>>,
             st |-> [st EXCEPT
                        !.elems = Tail(@),
                        !.log = LogPull(st, "bgpstream_record_get_next_elem",
                                        elem.res, p_record)]]

(***************************************************************************)
(* Record and Element construction.                                        *)
(***************************************************************************)

\* RecordStatus with a slip: a filtered source is skipped like a record
\* outside the time interval
RecordStatus_FilteredIsSkipped(status) ==
    CASE status = RECORD_STATUS_VALID_RECORD -> NoErr
      [] status \in {RECORD_STATUS_EMPTY_SOURCE, RECORD_STATUS_CORRUPTED_SOURCE}
           -> <<"RecordSourceEmptyOrCorrupted">>
      [] status \in {RECORD_STATUS_OUTSIDE_TIME_INTERVAL,
                     RECORD_STATUS_FILTERED_SOURCE} -> <<"None">>
      [] status = RECORD_STATUS_CORRUPTED_RECORD -> <<"RecordCorrupted">>
      [] status = RECORD_STATUS_UNSUPPORTED_RECORD -> <<"RecordUnsupported">>
      [] OTHER -> <<"UnknownRecordStatus">>

\* the match on record.status in Record::new: NoErr for a valid record,
\* <<"None">> for the early `return Ok(None)`, the error otherwise
RecordStatus(status) ==
    CASE status = RECORD_STATUS_VALID_RECORD -> NoErr
      [] status \in {RECORD_STATUS_FILTERED_SOURCE, RECORD_STATUS_EMPTY_SOURCE,
                     RECORD_STATUS_CORRUPTED_SOURCE}
           -> <<"RecordSourceEmptyOrCorrupted">>
      [] status = RECORD_STATUS_OUTSIDE_TIME_INTERVAL -> <<"None">>
      [] status = RECORD_STATUS_CORRUPTED_RECORD -> <<"RecordCorrupted">>
      [] status = RECORD_STATUS_UNSUPPORTED_RECORD -> <<"RecordUnsupported">>
      [] OTHER -> <<"UnknownRecordStatus">>

\* Record::new with a slip: the status of the record is looked at before
\* the return code
RecordNew_StatusFirst(st) ==
    LET pull == GetNextRecord(st)
        status == IF pull.rec = <<>> THEN NoErr ELSE RecordStatus(pull.rec[1].status)
        ret == IF status = <<"None">> THEN RNone
               ELSE IF status # NoErr THEN RErr(status)
               ELSE IF pull.res = 0 THEN RNone
               ELSE IF pull.res < 0 THEN RErr(<<"GetNextRecord">>)
               ELSE IF pull.p_record = 0 THEN RErr(<<"GetNextRecordNull">>)
               ELSE RSome([p_record |-> pull.p_record,
                           time |-> TimeOf(pull.rec[1].time_sec,
                                           pull.rec[1].time_usec)])
    IN  [ret |-> ret, st |-> pull.st]

\* Record::new with a slip: return code 0 is taken for a failure
RecordNew_EndIsError(st) ==
    LET pull == GetNextRecord(st)
        status == RecordStatus(pull.rec[1].status)
        ret == IF pull.res <= 0 THEN RErr(<<"GetNextRecord">>)
               ELSE IF pull.p_record = 0 THEN RErr(<<"GetNextRecordNull">>)
               ELSE IF status = <<"None">> THEN RNone
               ELSE IF status # NoErr THEN RErr(status)
               ELSE RSome([p_record |-> pull.p_record,
                           time |-> TimeOf(pull.rec[1].time_sec,
                                           pull.rec[1].time_usec)])
    IN  [ret |-> ret, st |-> pull.st]

\* Record::new with a slip: a failed pull is tried once more
RecordNew_RetryOnce(st) ==
    LET first == GetNextRecord(st)
        pull == IF first.res < 0 THEN GetNextRecord(first.st) ELSE first
        status == RecordStatus(pull.rec[1].status)
        ret == IF pull.res = 0 THEN RNone
               ELSE IF pull.res < 0 THEN RErr(<<"GetNextRecord">>)
               ELSE IF pull.p_record = 0 THEN RErr(<<"GetNextRecordNull">>)
               ELSE IF status = <<"None">> THEN RNone
               ELSE IF status # NoErr THEN RErr(status)
               ELSE RSome([p_record |-> pull.p_record,
                           time |-> TimeOf(pull.rec[1].time_sec,
                                           pull.rec[1].time_usec)])
    IN  [ret |-> ret, st |-> pull.st]

\* Record::new: [ret, st]
RecordNew(st) ==
    LET pull == GetNextRecord(st)
        status == RecordStatus(pull.rec[1].status)
        ret == IF pull.res = 0 THEN RNone
               ELSE IF pull.res < 0 THEN RErr(<<"GetNextRecord">>)
               ELSE IF pull.p_record = 0 THEN RErr(<<"GetNextRecordNull">>)
               ELSE IF status = <<"None">> THEN RNone
               ELSE IF status # NoErr THEN RErr(status)
               ELSE RSome([p_record |-> pull.p_record,
                           time |-> TimeOf(pull.rec[1].time_sec,
                                           pull.rec[1].time_usec)])
    IN  [ret |-> ret, st |-> pull.st]

\* Record::is_update on the record libbgpstream holds
IsUpdate(record) ==
    CASE record.type_ = BGPSTREAM_UPDATE -> RSome(TRUE)
      [] record.type_ = BGPSTREAM_RIB -> RSome(FALSE)
      [] OTHER -> RErr(<<"RecordCorrupted">>)

\* Element::new with a slip: only a negative return code is a failure
ElementNew_NegativeOnly(st, record) ==
    LET pull == GetNextElem(st, record.p_record)
        ret == IF pull.res = 0 THEN RNone
               ELSE IF pull.res < 0 THEN RErr(<<"GetNextElement">>)
               ELSE IF pull.null THEN RErr(<<"GetNextElementNull">>)
               ELSE DecodeElement(record.time, pull.elem[1])
    IN  [ret |-> ret, st |-> pull.st]

\* Element::new / Record::next_element on `record`: [ret, st]
ElementNew(st, record) ==
    LET pull == GetNextElem(st, record.p_record)
        ret == IF pull.res = 0 THEN RNone
               ELSE IF pull.res # 1 THEN RErr(<<"GetNextElement">>)
               ELSE IF pull.null THEN RErr(<<"GetNextElementNull">>)
               ELSE DecodeElement(record.time, pull.elem[1])
    IN  [ret |-> ret, st |-> pull.st]

(***************************************************************************)
(* BgpStream: next_record and the flattening iterator.                     *)
(***************************************************************************)

\* next_record with a slip: the current record is handed out and kept
BgpStreamNextRecord_NoTake(st) ==
    IF IsSome(st.cur)
        THEN [ret |-> RSome(st.cur[1]), st |-> st]
        ELSE RecordNew(st)

\* next_record with a slip: a new record is pulled whether or not one is held
BgpStreamNextRecord_AlwaysPull(st) == RecordNew([st EXCEPT !.cur = None])

\* BgpStream::next_record: [ret, st]
BgpStreamNextRecord(st) ==
    IF IsSome(st.cur)
        THEN [ret |-> RSome(st.cur[1]), st |-> [st EXCEPT !.cur = None]]
        ELSE RecordNew(st)

\* Record::detach
Detach(record) == [p_record |-> record.p_record, time |-> record.time]

\* Iterator::next with a slip: an exhausted record ends the demand with None
BgpStreamNext_StopAtExhausted(st) ==
    LET r == BgpStreamNextRecord(st)
        st1 == IF IsSome(st.cur) THEN st
               ELSE [r.st EXCEPT !.cur = IF r.ret.tag = "Some"
                                         THEN Some(Detach(r.ret.val[1])) ELSE None]
        e == ElementNew(st1, st1.cur[1])
    IN  IF ~IsSome(st.cur) /\ r.ret.tag # "Some" THEN [ret |-> r.ret, st |-> r.st]
        ELSE IF e.ret.tag = "None" THEN [ret |-> RNone, st |-> [e.st EXCEPT !.cur = None]]
        ELSE [ret |-> e.ret, st |-> e.st]

\* Iterator::next with a slip: an element error is dropped and the loop goes on
RECURSIVE BgpStreamNext_SwallowErr(_)
BgpStreamNext_SwallowErr(st) ==
    LET r == BgpStreamNextRecord(st)
        st1 == IF IsSome(st.cur) THEN st
               ELSE [r.st EXCEPT !.cur = IF r.ret.tag = "Some"
                                         THEN Some(Detach(r.ret.val[1])) ELSE None]
        e == ElementNew(st1, st1.cur[1])
    IN  IF ~IsSome(st.cur) /\ r.ret.tag # "Some" THEN [ret |-> r.ret, st |-> r.st]
        ELSE IF e.ret.tag = "None"
            THEN BgpStreamNext_SwallowErr([e.st EXCEPT !.cur = None])
        ELSE IF e.ret.tag = "Err" THEN BgpStreamNext_SwallowErr(e.st)
        ELSE [ret |-> e.ret, st |-> e.st]

\* Iterator::next with a slip: without a record to pull, the demand ends
\* with an error item
RECURSIVE BgpStreamNext_EndAsError(_)
BgpStreamNext_EndAsError(st) ==
    LET r == BgpStreamNextRecord(st)
        st1 == IF IsSome(st.cur) THEN st
               ELSE [r.st EXCEPT !.cur = IF r.ret.tag = "Some"
                                         THEN Some(Detach(r.ret.val[1])) ELSE None]
        e == ElementNew(st1, st1.cur[1])
    IN  IF ~IsSome(st.cur) /\ r.ret.tag = "None"
            THEN [ret |-> RErr(<<"GetNextRecord">>), st |-> r.st]
        ELSE IF ~IsSome(st.cur) /\ r.ret.tag # "Some" THEN [ret |-> r.ret, st |-> r.st]
        ELSE IF e.ret.tag = "None"
            THEN BgpStreamNext_EndAsError([e.st EXCEPT !.cur = None])
        ELSE [ret |-> e.ret, st |-> e.st]

\* Iterator::next with a slip: an element error drops the current record
RECURSIVE BgpStreamNext_DropOnError(_)
BgpStreamNext_DropOnError(st) ==
    LET r == BgpStreamNextRecord(st)
        st1 == IF IsSome(st.cur) THEN st
               ELSE [r.st EXCEPT !.cur = IF r.ret.tag = "Some"
                                         THEN Some(Detach(r.ret.val[1])) ELSE None]
        e == ElementNew(st1, st1.cur[1])
    IN  IF ~IsSome(st.cur) /\ r.ret.tag # "Some" THEN [ret |-> r.ret, st |-> r.st]
        ELSE IF e.ret.tag = "None"
            THEN BgpStreamNext_DropOnError([e.st EXCEPT !.cur = None])
        ELSE IF e.ret.tag = "Err" THEN [ret |-> e.ret, st |-> [e.st EXCEPT !.cur = None]]
        ELSE [ret |-> e.ret, st |-> e.st]

\* Iterator::next for BgpStream, the whole loop: [ret, st]
RECURSIVE BgpStreamNext(_)
BgpStreamNext(st) ==
    LET r == BgpStreamNextRecord(st)
        st1 == IF IsSome(st.cur) THEN st
               ELSE [r.st EXCEPT !.cur = IF r.ret.tag = "Some"
                                         THEN Some(Detach(r.ret.val[1])) ELSE None]
        e == ElementNew(st1, st1.cur[1])
    IN  IF ~IsSome(st.cur) /\ r.ret.tag # "Some" THEN [ret |-> r.ret, st |-> r.st]
        ELSE IF e.ret.tag = "None" THEN BgpStreamNext([e.st EXCEPT !.cur = None])
        ELSE [ret |-> e.ret, st |-> e.st]

(***************************************************************************)
(* The inputs the model draws from.                                        *)
(***************************************************************************)

\* (filter type, value) entries the builder methods push
FilterEntries ==
    {<<"PROJECT", "routeviews">>, <<"PROJECT", "ris">>, <<"COLLECTOR", "rrc00">>}

\* Unix timestamps n as [hi |-> n div 2^32, lo |-> n mod 2^32]:
\* 2023-11-14T22:13:20Z, a time before 1970 and 2106-02-07T06:28:16Z = 2^32
Times == {[hi |-> 0, lo |-> 1700000000], [hi |-> -1, lo |-> 1700000000],
          [hi |-> 1, lo |-> 0]}

\* amounts of a Since interval
SinceAmounts == {1, 90}

Intervals ==
    {Open}
    \cup {Interval(start, stop) :
            start \in {t \in Times : t.lo # 0}, stop \in {None} \cup {Some(t) : t \in Times}}
    \cup {Since(1, unit, live) : unit \in TimeUnit, live \in BOOLEAN}
    \cup {Since(amount, "Minutes", FALSE) : amount \in SinceAmounts}

RibPeriods == {3600}
InterfaceNames == {"broker", "kafka"}
OptionNames == {"cache-dir"}
OptionValues == {"/tmp/bgpstream_cache"}

\* the most calls BgpStream::new makes before it returns
MaxCalls == 4 + MaxFilters + 3 * MaxOptions
Oracles == [failAt : 0..MaxCalls, how : {1, 2}]
AcceptAll == [failAt |-> 0, how |-> 1]

\* raw addresses, prefixes and elements as libbgpstream lays them out
Zeros(n) == [i \in 1..n |-> 0]
RawV4 == [version |-> ADDR_VERSION_IPV4, bytes |-> <<192, 0, 2, 1>> \o Zeros(12)]
RawPrefix == [address |-> RawV4, mask_len |-> 24]
RawAsn(asn) == [null |-> FALSE, is_asn |-> TRUE, asn |-> asn, asn_cnt |-> 0, set |-> <<>>]

\* an element of kind "rib" (decodes to a RIB entry), "bad" (pulled, with a
\* type tag no arm matches) or "fail" (the pull returns -1); peer_asn tells
\* the elements of a feed apart
RawElem(kind, peer_asn) ==
    [res |-> IF kind = "fail" THEN -1 ELSE 1, null |-> FALSE,
     type_ |-> IF kind = "rib" THEN ELEM_TYPE_RIB ELSE 0,
     orig_time_sec |-> 0, orig_time_usec |-> 0,
     peer_ip |-> RawV4, peer_asn |-> peer_asn,
     prefix |-> RawPrefix, nexthop |-> RawV4,
     as_path |-> <<RawAsn(64512), RawAsn(64513)>>,
     communities |-> <<[null |-> FALSE, asn |-> 65000, value |-> 100]>>,
     has_origin |-> 1, origin |-> ORIGIN_IGP,
     has_med |-> 0, med |-> 0, has_local_pref |-> 1, local_pref |-> 100,
     old_state |-> 0, new_state |-> 0]

\* a record pull of kind "valid", "outside" (status OUTSIDE_TIME_INTERVAL),
\* "corrupted" (status CORRUPTED_RECORD) or "pullfail" (return code -1);
\* n is its place in the feed
RawRecord(kind, elem_kinds, n) ==
    [res |-> IF kind = "pullfail" THEN -1 ELSE 1,
     null |-> kind = "pullfail",
     status |-> CASE kind = "outside" -> RECORD_STATUS_OUTSIDE_TIME_INTERVAL
                  [] kind = "corrupted" -> RECORD_STATUS_CORRUPTED_RECORD
                  [] OTHER -> RECORD_STATUS_VALID_RECORD,
     type_ |-> BGPSTREAM_UPDATE,
     time_sec |-> 1700000000 + n, time_usec |-> 0,
     project_name |-> Zeros(MaxName), collector_name |-> Zeros(MaxName),
     router_name |-> Zeros(MaxName),
     elems |-> [i \in 1..Len(elem_kinds) |-> RawElem(elem_kinds[i], 10 * n + i)]]

ElemKinds == {"rib", "bad", "fail"}
ElemKindSeqs(n) == UNION {[1..k -> ElemKinds] : k \in 0..n}

\* record shapes of at most n records-plus-elements
RecordShapes(n) ==
    {[kind |-> "valid", elems |-> es] : es \in ElemKindSeqs(n - 1)}
    \cup {[kind |-> k, elems |-> <<>>] : k \in {"outside", "corrupted", "pullfail"}}

\* feeds of at most n records-plus-elements, as sequences of shapes
RECURSIVE FeedShapes(_)
FeedShapes(n) ==
    IF n <= 0 THEN {<<>>}
    ELSE {<<>>} \cup
         UNION {{<<r>> \o f : f \in FeedShapes(n - 1 - Len(r.elems))} :
                  r \in RecordShapes(n)}

Feeds ==
    {[i \in 1..Len(f) |-> RawRecord(f[i].kind, f[i].elems, i)] : f \in FeedShapes(MaxFeed)}

\* raw addresses of every version tag drawn, IPv4 and IPv6 byte patterns
AddrVersions == {0, 4, 6, ADDR_VERSION_IPV4, ADDR_VERSION_IPV6}
AddrBytes ==
    {<<192, 0, 2, 1>> \o Zeros(12), Zeros(15) \o <<1>>,
     <<32, 1, 13, 184>> \o Zeros(10) \o <<0, 1>>}
RawAddrs == [version : AddrVersions, bytes : AddrBytes]
RawBadAddr == [version |-> 0, bytes |-> Zeros(16)]
RawPrefixes ==
    {RawPrefix, [address |-> RawBadAddr, mask_len |-> 24],
     [address |-> RawV4, mask_len |-> 33]}

\* the elements a record is given when its decoding is looked at: a RIB
\* element that decodes, varied in the outcome of the pull, in the type
\* tag and the fields its arm reads, in the origin time, in the optional
\* fields, in the peer states, and in the peer address
BaseElem == RawElem("rib", 7)
ElemPulls ==
    {[BaseElem EXCEPT !.res = r, !.null = n, !.peer_ip = a] :
        r \in {-1, 0, 1, 2}, n \in BOOLEAN, a \in {RawV4, RawBadAddr}}
ElemTagged ==
    {[BaseElem EXCEPT !.type_ = t, !.prefix = pf, !.nexthop = nh, !.origin = o] :
        t \in 0..MaxTag, pf \in RawPrefixes, nh \in {RawV4, RawBadAddr},
        o \in {ORIGIN_IGP, MaxOrigin}}
ElemTimed ==
    {[BaseElem EXCEPT !.orig_time_sec = sec, !.orig_time_usec = usec] :
        sec \in {0, 1600000000}, usec \in {0, 500, 1500000}}
ElemOptionals ==
    {[BaseElem EXCEPT !.type_ = t, !.has_origin = ho, !.origin = o,
                      !.has_med = hm, !.med = m, !.has_local_pref = hl] :
        t \in {ELEM_TYPE_RIB, ELEM_TYPE_ANNOUNCEMENT},
        ho \in {0, 1}, o \in 0..MaxOrigin, hm \in {0, 1, 2}, m \in {0, 100},
        hl \in {0, 1}}
ElemPeerStates ==
    {[BaseElem EXCEPT !.type_ = ELEM_TYPE_PEERSTATE, !.old_state = old,
                      !.new_state = new] : old \in 0..MaxCode, new \in 0..MaxCode}
ElemAddressed == {[BaseElem EXCEPT !.peer_ip = a] : a \in RawAddrs}

\* withdrawals of 192.0.2.0, of 2001:db8:: and of an address with an
\* unknown version tag, with mask lengths around the widths of the families
PrefixInputs ==
    [address : {[version |-> ADDR_VERSION_IPV4, bytes |-> <<192, 0, 2, 0>> \o Zeros(12)],
                [version |-> ADDR_VERSION_IPV6,
                 bytes |-> <<32, 1, 13, 184>> \o Zeros(12)],
                RawBadAddr},
     mask_len : {0, 24, 32, 33, 128, 129, 255}]
ElemPrefixed ==
    {[BaseElem EXCEPT !.type_ = ELEM_TYPE_WITHDRAWAL, !.prefix = pf] :
        pf \in PrefixInputs}

\* AS paths of up to MaxPath entries: single AS numbers, AS sets (one with
\* a number in memory past its count, one empty) and the null segment
SeqsUpTo(S, n) == UNION {[1..k -> S] : k \in 0..n}
RawSet(asn_cnt, set) ==
    [null |-> FALSE, is_asn |-> FALSE, asn |-> 0, asn_cnt |-> asn_cnt, set |-> set]
RawNullSeg == [null |-> TRUE, is_asn |-> FALSE, asn |-> 0, asn_cnt |-> 0, set |-> <<>>]
PathInputs ==
    SeqsUpTo({RawAsn(64512), RawAsn(64513), RawSet(2, <<64515, 64514, 64516>>),
              RawSet(0, <<64517>>), RawNullSeg}, MaxPath)
ElemPaths == {[BaseElem EXCEPT !.as_path = ap] : ap \in PathInputs}

\* community sets of up to MaxPath entries: 65000:100, 0:0 and the null entry
CommunityInputs ==
    SeqsUpTo({[null |-> FALSE, asn |-> 65000, value |-> 100],
              [null |-> FALSE, asn |-> 0, value |-> 0],
              [null |-> TRUE, asn |-> 0, value |-> 0]}, MaxPath)
ElemCommunities == {[BaseElem EXCEPT !.communities = cs] : cs \in CommunityInputs}

DecodeElems ==
    ElemPulls \cup ElemTagged \cup ElemTimed \cup ElemOptionals
    \cup ElemPeerStates \cup ElemAddressed \cup ElemPrefixed
    \cup ElemPaths \cup ElemCommunities

\* one-record feeds: every outcome of the record pull (return code, null
\* pointer, status), and a valid record with one of the elements above
DecodeFeeds ==
    {<<[res |-> r, null |-> n, status |-> status, type_ |-> BGPSTREAM_UPDATE,
        time_sec |-> 1700000000, time_usec |-> usec,
        project_name |-> Zeros(MaxName), collector_name |-> Zeros(MaxName),
        router_name |-> Zeros(MaxName), elems |-> <<BaseElem>>]>> :
        r \in {-1, 0, 1, 2}, n \in BOOLEAN, status \in 0..MaxStatus,
        usec \in {0, 250000}}
    \cup {<<[res |-> 1, null |-> FALSE, status |-> RECORD_STATUS_VALID_RECORD,
             type_ |-> BGPSTREAM_UPDATE,
             time_sec |-> 1700000000, time_usec |-> usec,
             project_name |-> Zeros(MaxName), collector_name |-> Zeros(MaxName),
             router_name |-> Zeros(MaxName), elems |-> <<e>>]>> :
             usec \in {0, 1250000}, e \in DecodeElems}

\* a valid record with the type tag type_ and the name buffers filled from b
NamedRecord(type_, b) ==
    [res |-> 1, null |-> FALSE, status |-> RECORD_STATUS_VALID_RECORD,
     type_ |-> type_, time_sec |-> 1700000000, time_usec |-> 0,
     project_name |-> b, collector_name |-> Reverse(b),
     router_name |-> <<b[1]>> \o Zeros(MaxName - 1), elems |-> <<BaseElem>>]

\* bytes of a name buffer: NUL, 'A', the two bytes of U+00E9 and the lead
\* byte of a three-byte sequence
NameBytes == {0, 65, 195, 169, 226}

\* one-record feeds for the accessors of a Record: every type tag, and
\* every filling of the name buffers
RecordFeeds ==
    {<<NamedRecord(type_, Zeros(MaxName))>> : type_ \in 0..MaxType}
    \cup {<<NamedRecord(BGPSTREAM_UPDATE, b)>> : b \in [1..MaxName -> NameBytes]}

(***************************************************************************)
(* The state machine.                                                      *)
(***************************************************************************)
Init ==
    /\ query = QueryNew
    /\ phase = "building"
    /\ run_result = <<"pending">>
    /\ log = <<>>
    /\ feed = <<>>
    /\ ds_gen = 0
    /\ ds_elems = <<>>
    /\ current_record = None
    /\ borrowed = None
    /\ hist = <<>>
    /\ feed0 = <<>>

stream_vars == <<phase, run_result, log, feed, ds_gen, ds_elems,
                  current_record, borrowed, hist, feed0>>

\* a builder method panicked: the thread that builds the Query unwinds
Panicked == \E i \in DOMAIN hist : hist[i].ret.tag = "Panic"

\* CString::new(..).unwrap() on bytes with a NUL inside a builder method: the
\* method panics before it pushes, nothing is returned to the caller
UnwrapPanics(method) ==
    /\ query' = query
    /\ hist' = Append(hist, [op |-> method,
                             ret |-> [tag |-> "Panic", val |-> None,
                                      err |-> <<"NulError">>],
                             from |-> Len(log) + 1, to |-> Len(log)])

build_vars == <<phase, run_result, log, feed, ds_gen, ds_elems,
                 current_record, borrowed, feed0>>

\* any of the Query methods that push a filter; the ones that take a raw
\* name (collector_name, ...) can be handed bytes with a NUL
AddFilter ==
    /\ phase = "building" /\ ~Panicked
    /\ Len(query.filters) < MaxFilters
    /\ \E f \in FilterEntries \cup {<<"COLLECTOR", n>> : n \in NulStrings} :
         IF CStringNew(f[2]).ok
         THEN query' = PushFilter(query, f[1], f[2]) /\ hist' = hist
         ELSE UnwrapPanics("collector_name")
    /\ UNCHANGED build_vars

\* Query::interval
QueryInterval ==
    /\ phase = "building" /\ ~Panicked
    /\ \E interval \in Intervals : query' = SetInterval(query, interval)
    /\ UNCHANGED stream_vars

\* Query::rib_period
QueryRibPeriod ==
    /\ phase = "building" /\ ~Panicked
    /\ \E secs \in RibPeriods : query' = SetRibPeriod(query, secs)
    /\ UNCHANGED stream_vars

\* Query::set_data_interface_option
QuerySetOption ==
    /\ phase = "building" /\ ~Panicked
    /\ Len(query.data_interface_options) < MaxOptions
    /\ \E i \in InterfaceNames, o \in OptionNames, v \in OptionValues \cup NulStrings :
         IF CStringNew(i).ok /\ CStringNew(o).ok /\ CStringNew(v).ok
         THEN query' = SetDataInterfaceOption(query, i, o, v) /\ hist' = hist
         ELSE UnwrapPanics("set_data_interface_option")
    /\ UNCHANGED build_vars

\* Query::cache
QueryCache ==
    /\ phase = "building" /\ ~Panicked
    /\ Len(query.data_interface_options) < MaxOptions
    /\ \E dir \in OptionValues \cup NulStrings :
         IF CStringNew(dir).ok
         THEN query' = Cache(query, dir) /\ hist' = hist
         ELSE UnwrapPanics("cache")
    /\ UNCHANGED build_vars

\* Query::run
Run ==
    /\ phase = "building" /\ ~Panicked
    /\ \E orc \in Oracles :
         LET r == BgpStreamNew(query, orc)
         IN  /\ log' = r.log
             /\ run_result' = r.result
             /\ phase' = IF r.result = <<"Ok">> THEN "open" ELSE "failed"
    /\ UNCHANGED <<query, feed, ds_gen, ds_elems, current_record, borrowed,
                   hist, feed0>>

\* the stream as the pull operators see it, and the demand recorded
StreamState ==
    [cur |-> current_record, feed |-> feed, gen |-> ds_gen, elems |-> ds_elems,
     log |-> log]

Demand(op, r) ==
    /\ hist' = Append(hist, [op |-> op, ret |-> r.ret,
                             from |-> Len(log) + 1, to |-> Len(r.st.log)])
    /\ current_record' = r.st.cur
    /\ feed' = r.st.feed
    /\ ds_gen' = r.st.gen
    /\ ds_elems' = r.st.elems
    /\ log' = r.st.log

\* the caller asks the stream, as an Iterator, for its next item
IterNext ==
    /\ phase = "open"
    /\ borrowed = None
    /\ Len(hist) < MaxDemands
    /\ Demand("next", BgpStreamNext(StreamState))
    /\ UNCHANGED <<query, phase, run_result, borrowed, feed0>>

\* the caller calls next_record(); the Record returned borrows the stream
NextRecord ==
    /\ phase = "open"
    /\ borrowed = None
    /\ Len(hist) < MaxDemands
    /\ LET r == BgpStreamNextRecord(StreamState)
       IN  /\ Demand("next_record", r)
           /\ borrowed' = r.ret.val
    /\ UNCHANGED <<query, phase, run_result, feed0>>

\* the caller pulls an element from the Record it holds
RecordNext ==
    /\ phase = "open"
    /\ IsSome(borrowed)
    /\ Len(hist) < MaxDemands
    /\ Demand("next_element", ElementNew(StreamState, borrowed[1]))
    /\ UNCHANGED <<query, phase, run_result, borrowed, feed0>>

\* the Record the caller holds goes out of scope: the borrow of the stream ends
ReleaseRecord ==
    /\ phase = "open"
    /\ IsSome(borrowed)
    /\ borrowed' = None
    /\ UNCHANGED <<query, phase, run_result, log, feed, ds_gen, ds_elems,
                   current_record, hist, feed0>>

\* the record libbgpstream holds: the last one it gave out
HeldRecord ==
    LET pulled == Len(feed0) - Len(feed)
        given == {i \in 1..pulled : feed0[i].res > 0 /\ ~feed0[i].null}
    IN  feed0[CHOOSE i \in given : \A j \in given : j <= i]

\* an accessor of the Record the caller holds returned ret
Read(op, ret) ==
    /\ phase = "open"
    /\ IsSome(borrowed)
    /\ Cardinality({i \in DOMAIN hist : hist[i].from > hist[i].to}) < MaxReads
    /\ hist' = Append(hist, [op |-> op, ret |-> ret,
                             from |-> Len(log) + 1, to |-> Len(log)])
    /\ UNCHANGED <<query, phase, run_result, log, feed, ds_gen, ds_elems,
                   current_record, borrowed, feed0>>

\* Record::is_update
RecordIsUpdate == Read("is_update", IsUpdate(HeldRecord))

\* Record::project_name, collector_name and router_name
RecordName ==
    \/ Read("project_name", array_to_string(HeldRecord.project_name))
    \/ Read("collector_name", array_to_string(HeldRecord.collector_name))
    \/ Read("router_name", array_to_string(HeldRecord.router_name))

\* the stream goes out of scope: Drop for BgpStream
Drop ==
    /\ phase = "open"
    /\ borrowed = None
    /\ log' = DropLog(log)
    /\ phase' = "dropped"
    /\ UNCHANGED <<query, run_result, feed, ds_gen, ds_elems, current_record,
                   borrowed, hist, feed0>>

\* building a Query, running it and releasing the stream
Next ==
    \/ AddFilter
    \/ QueryInterval
    \/ QueryRibPeriod
    \/ QuerySetOption
    \/ QueryCache
    \/ Run
    \/ Drop

Spec == Init /\ [][Next]_vars

\* a query with a filter, an interval, a RIB period and an option triple
FullQuery ==
    Cache(SetRibPeriod(SetInterval(PushFilter(QueryNew, "PROJECT", "ris"),
                                   Since(1, "Hours", FALSE)), 3600),
          "/tmp/bgpstream_cache")

\* a stream just opened by Query::new().run() over a feed, or a run() of
\* FullQuery that libbgpstream refused at one of its calls
InitStream ==
    /\ \/ /\ query = QueryNew
          /\ phase = "open"
          /\ run_result = BgpStreamNew(QueryNew, AcceptAll).result
          /\ log = BgpStreamNew(QueryNew, AcceptAll).log
          /\ feed \in Feeds
       \/ \E orc \in Oracles :
             /\ BgpStreamNew(FullQuery, orc).result # <<"Ok">>
             /\ query = FullQuery
             /\ phase = "failed"
             /\ run_result = BgpStreamNew(FullQuery, orc).result
             /\ log = BgpStreamNew(FullQuery, orc).log
             /\ feed = <<>>
    /\ feed0 = feed
    /\ ds_gen = 0
    /\ ds_elems = <<>>
    /\ current_record = None
    /\ borrowed = None
    /\ hist = <<>>

\* pulling from an open stream and releasing it
NextStream ==
    \/ IterNext
    \/ NextRecord
    \/ RecordNext
    \/ ReleaseRecord
    \/ Drop

SpecStream == InitStream /\ [][NextStream]_vars

\* the stream can be asked for its next item: the guard of IterNext, which
\* is ENABLED <<IterNext>>_vars since every demand adds its entry to hist
IterEnabled == phase = "open" /\ borrowed = None /\ Len(hist) < MaxDemands

\* a caller that keeps asking the stream, as an Iterator, for its next item
\* (a loop over the stream that does not stop at an error item).  The
\* fairness condition is WF_vars(IterNext) with ENABLED written out.
SpecIter ==
    /\ InitStream
    /\ [][IterNext]_vars
    /\ ([]<>(~IterEnabled) \/ []<><<IterNext>>_vars)

\* a stream just opened over a feed of one record, whose records and
\* elements the caller pulls one by one with next_record and next_element
InitDecode ==
    /\ query = QueryNew
    /\ phase = "open"
    /\ run_result = BgpStreamNew(QueryNew, AcceptAll).result
    /\ log = BgpStreamNew(QueryNew, AcceptAll).log
    /\ feed \in DecodeFeeds
    /\ feed0 = feed
    /\ ds_gen = 0
    /\ ds_elems = <<>>
    /\ current_record = None
    /\ borrowed = None
    /\ hist = <<>>

NextDecode ==
    \/ NextRecord
    \/ RecordNext
    \/ ReleaseRecord

SpecDecode == InitDecode /\ [][NextDecode]_vars

\* a stream over one record, and a caller that pulls it and reads its
\* metadata
InitRecord ==
    /\ query = QueryNew
    /\ phase = "open"
    /\ run_result = BgpStreamNew(QueryNew, AcceptAll).result
    /\ log = BgpStreamNew(QueryNew, AcceptAll).log
    /\ feed \in RecordFeeds
    /\ feed0 = feed
    /\ ds_gen = 0
    /\ ds_elems = <<>>
    /\ current_record = None
    /\ borrowed = None
    /\ hist = <<>>

NextOnRecord ==
    \/ NextRecord
    \/ RecordIsUpdate
    \/ RecordName
    \/ ReleaseRecord

SpecRecord == InitRecord /\ [][NextOnRecord]_vars

(***************************************************************************)
(* Properties.                                                             *)
(***************************************************************************)

\* the demands made so far are all demands on the flattening iterator
OnlyIteratorDemands == \A i \in DOMAIN hist : hist[i].op = "next"

\* a pending pull that gives a valid record / an element that decodes
IsValidPull(rec) ==
    rec.res > 0 /\ ~rec.null /\ rec.status = RECORD_STATUS_VALID_RECORD
ElemDecodes(rec, elem) ==
    /\ elem.res = 1
    /\ ~elem.null
    /\ DecodeElement(TimeOf(rec.time_sec, rec.time_usec), elem).tag = "Some"

\* the decoded elements of one record, in pull order, and of a whole feed
ElementsOf(rec) ==
    [i \in 1..Len(rec.elems) |->
        DecodeElement(TimeOf(rec.time_sec, rec.time_usec), rec.elems[i]).val[1]]
RECURSIVE Concatenation(_)
Concatenation(fd) ==
    IF fd = <<>> THEN <<>> ELSE ElementsOf(Head(fd)) \o Concatenation(Tail(fd))

AllValidAndDecoding(fd) ==
    \A i \in DOMAIN fd :
        /\ IsValidPull(fd[i])
        /\ \A j \in DOMAIN fd[i].elems : ElemDecodes(fd[i], fd[i].elems[j])

\* C1: over a feed of valid records whose elements all decode, the items the
\* flattening iterator has emitted are the concatenation of the records'
\* elements, in order, each once and none an error, and every demand made
\* after the last of them returns None.
C1_FlattenIsConcatenation ==
    (AllValidAndDecoding(feed0) /\ OnlyIteratorDemands) =>
        \A i \in DOMAIN hist :
            IF i <= Len(Concatenation(feed0))
                THEN hist[i].ret = RSome(Concatenation(feed0)[i])
                ELSE hist[i].ret = RNone

\* C1 witness: one valid RIB record of two elements, then the end: two
\* RIB items and a None
C1_Witness ==
    /\ Len(feed0) = 1
    /\ AllValidAndDecoding(feed0)
    /\ Len(feed0[1].elems) = 2
    /\ OnlyIteratorDemands
    /\ Len(hist) = 3
    /\ hist[1].ret.tag = "Some" /\ hist[1].ret.val[1].e.variant = "RIB"
    /\ hist[2].ret.tag = "Some" /\ hist[2].ret.val[1].e.variant = "RIB"
    /\ hist[1].ret.val[1].peer_asn # hist[2].ret.val[1].peer_asn
    /\ hist[3].ret = RNone

\* the last libbgpstream call a demand made (it made one)
LastCall(d) == log[d.to]
MadeCalls(d) == d.to >= d.from

\* C2: a demand on the flattening iterator returns None only when
\* bgpstream_get_next_record itself returned 0, the end of the stream: a
\* record outside the time interval is skipped within the demand.
C2_NoneOnlyAtEndOfStream ==
    \A i \in DOMAIN hist :
        (hist[i].op = "next" /\ hist[i].ret.tag = "None") =>
            /\ MadeCalls(hist[i])
            /\ LastCall(hist[i]).op = "bgpstream_get_next_record"
            /\ LastCall(hist[i]).ret = 0

RecordsPulled == Len(feed0) - Len(feed)
ElemsPulled(k) ==
    IF k = RecordsPulled /\ IsValidPull(feed0[k])
        THEN Len(feed0[k].elems) - Len(ds_elems)
        ELSE IF IsValidPull(feed0[k]) THEN Len(feed0[k].elems) ELSE 0

\* the failures among them: record pulls Record::new answers with an error,
\* element pulls Element::new answers with an error
RecordFails(rec) ==
    \/ rec.res < 0
    \/ rec.res > 0 /\ rec.null
    \/ rec.res > 0 /\ ~rec.null
         /\ RecordStatus(rec.status) \notin {NoErr, <<"None">>}
FailuresPulled ==
    Cardinality({k \in 1..RecordsPulled : RecordFails(feed0[k])})
    + Cardinality({kj \in (1..RecordsPulled) \X (1..MaxFeed) :
                     /\ kj[2] <= ElemsPulled(kj[1])
                     /\ ~ElemDecodes(feed0[kj[1]], feed0[kj[1]].elems[kj[2]])})

ErrorItems == {i \in DOMAIN hist : hist[i].ret.tag = "Err"}

AtEndOfStream(d) ==
    /\ MadeCalls(d)
    /\ LastCall(d).op = "bgpstream_get_next_record"
    /\ LastCall(d).ret = 0

\* C4: a demand on the iterator that meets the end of the stream returns
\* None, and so does every demand made on the stream after it.
C4_EndOfStreamIsFinal ==
    \A i \in DOMAIN hist :
        (hist[i].op = "next" /\ AtEndOfStream(hist[i])) =>
            \A j \in DOMAIN hist : j >= i => hist[j].ret = RNone

\* C4 witness: elements were emitted, the end was met, and demands made
\* after it, on the iterator and by next_record(), returned None
C4_Witness ==
    \E i, j, k \in DOMAIN hist :
        /\ i < j /\ j < k
        /\ hist[1].ret.tag = "Some"
        /\ hist[i].op = "next" /\ AtEndOfStream(hist[i])
        /\ hist[j].op = "next" /\ hist[j].ret = RNone
        /\ hist[k].op = "next_record" /\ hist[k].ret = RNone

Destroys == {i \in DOMAIN log : log[i].op = "bgpstream_destroy"}
Created ==
    log # <<>> /\ log[1].op = "bgpstream_create" /\ log[1].ret # 0

\* C5: the handle bgpstream_create returned is destroyed exactly once on
\* every way out: by BgpStream::new itself when a later step fails, by the
\* drop of the stream when it succeeded, never when create failed; and no
\* call follows the destroy.
C5_DestroyedExactlyOnce ==
    /\ Cardinality(Destroys) <= 1
    /\ \A i \in Destroys : i = Len(log) /\ Created
    /\ phase = "building" => log = <<>>
    /\ phase = "open" => Created /\ Destroys = {}
    /\ phase = "dropped" => Cardinality(Destroys) = 1
    /\ phase = "failed" => (Cardinality(Destroys) = 1 <=> Created)

\* C5 witness: two filters were applied, the interval was refused and the
\* handle was destroyed before the error was returned
C5_Witness ==
    /\ phase = "failed"
    /\ run_result = <<"Err", "AddInterval">>
    /\ Len(log) = 5
    /\ log[5].op = "bgpstream_destroy"

\* C6: at most one Record is live per stream: the iterator's current record
\* and a Record lent to the caller never coexist; bgpstream_get_next_record
\* is only called while the stream holds no current record; and
\* bgpstream_record_get_next_elem is only called on the handle the most
\* recent bgpstream_get_next_record returned.
C6_OneLiveRecord ==
    /\ ~(IsSome(current_record) /\ IsSome(borrowed))
    /\ \A i \in DOMAIN log :
          /\ log[i].op = "bgpstream_get_next_record" => ~log[i].held
          /\ log[i].op = "bgpstream_record_get_next_elem" =>
                /\ log[i].h # 0
                /\ \E j \in 1..(i - 1) :
                      /\ log[j].op = "bgpstream_get_next_record"
                      /\ log[j].h = log[i].h
                      /\ \A k \in (j + 1)..(i - 1) :
                            log[k].op # "bgpstream_get_next_record"

\* C6 witness: the iterator emitted an element of a record, next_record()
\* handed that record to the caller, who pulled from it and let it go; then
\* the iterator pulled the next record and emitted an element of it
C6_Witness ==
    /\ Len(hist) >= 4
    /\ hist[1].op = "next" /\ hist[1].ret.tag = "Some"
    /\ hist[2].op = "next_record" /\ hist[2].ret.tag = "Some"
    /\ hist[3].op = "next_element"
    /\ hist[4].op = "next" /\ hist[4].ret.tag = "Some"
    /\ log[hist[4].to].h = 2

\* the configuration calls made (the log without the destroy)
ConfigCalls == SelectSeq(log, LAMBDA c : c.op # "bgpstream_destroy")

\* the order of calls the claim fixes, for a query
OptionCalls ==
    <<"bgpstream_get_data_interface_id_by_name",
      "bgpstream_get_data_interface_option_by_name",
      "bgpstream_set_data_interface_option">>
RECURSIVE Repeat(_, _)
Repeat(seq, n) == IF n = 0 THEN <<>> ELSE seq \o Repeat(seq, n - 1)
OpenOrder(q) ==
    <<"bgpstream_create">>
    \o Repeat(<<"bgpstream_add_filter">>, Len(q.filters))
    \o (CASE q.interval.kind = "Open" -> <<>>
          [] q.interval.kind = "Interval" -> <<"bgpstream_add_interval_filter">>
          [] q.interval.kind = "Since" -> <<"bgpstream_add_recent_interval_filter">>)
    \o (IF IsSome(q.rib_period) THEN <<"bgpstream_add_rib_period_filter">> ELSE <<>>)
    \o Repeat(OptionCalls, Len(q.data_interface_options))
    \o <<"bgpstream_start">>

\* the error a refused call is reported as
ErrorOf(op) ==
    CASE op = "bgpstream_create" -> "Create"
      [] op = "bgpstream_add_filter" -> "AddFilter"
      [] op = "bgpstream_add_interval_filter" -> "AddInterval"
      [] op = "bgpstream_add_recent_interval_filter" -> "AddRecentInterval"
      [] op = "bgpstream_add_rib_period_filter" -> "AddRibPeriod"
      [] op = "bgpstream_get_data_interface_id_by_name" -> "InterfaceNotFound"
      [] op = "bgpstream_get_data_interface_option_by_name" -> "InterfaceOptionNotFound"
      [] op = "bgpstream_set_data_interface_option" -> "SetInterfaceOption"
      [] op = "bgpstream_start" -> "Start"

\* C7: BgpStream::new makes its calls in the fixed order create, the
\* filters, the interval, the RIB period, the option triples, start; it
\* stops at the first call refused, which is then the last, and returns
\* that step's error; it returns a stream exactly when it made every call
\* of the order and each was accepted.
C7_OpenOrderAndResult ==
    phase # "building" =>
        LET calls == ConfigCalls
            n == Len(calls)
            order == OpenOrder(query)
        IN  /\ n >= 1 /\ n <= Len(order)
            /\ \A i \in 1..n : calls[i].op = order[i]
            /\ \A i \in 1..(n - 1) : Accepted(calls[i].op, calls[i].ret)
            /\ (run_result = <<"Ok">>) <=>
                  (n = Len(order) /\ Accepted(calls[n].op, calls[n].ret))
            /\ ~Accepted(calls[n].op, calls[n].ret) =>
                  /\ run_result[1] = "Err"
                  /\ run_result[2] = ErrorOf(calls[n].op)
            /\ Accepted(calls[n].op, calls[n].ret) => n = Len(order)

\* C7 witness: the RIB period was refused with an option triple still to
\* come: neither the option calls nor start were made
C7_Witness ==
    /\ phase = "failed"
    /\ run_result = <<"Err", "AddRibPeriod">>
    /\ Len(query.filters) = 1
    /\ query.interval.kind = "Since"
    /\ Len(query.data_interface_options) = 1
    /\ Len(ConfigCalls) = 4

FilterCalls == SelectSeq(log, LAMBDA c : c.op = "bgpstream_add_filter")

\* C8: the bgpstream_add_filter calls are the query's filter entries, type
\* and value unchanged, in insertion order, each once; a refused entry is
\* the last one forwarded and the error is AddFilter; all are forwarded
\* when none is refused.
C8_FiltersForwardedInOrder ==
    (phase # "building" /\ Created) =>
        /\ Len(FilterCalls) <= Len(query.filters)
        /\ \A i \in DOMAIN FilterCalls :
              /\ FilterCalls[i].args = query.filters[i]
              /\ ~Accepted("bgpstream_add_filter", FilterCalls[i].ret) =>
                    i = Len(FilterCalls) /\ run_result = <<"Err", "AddFilter">>
        /\ (\A i \in DOMAIN FilterCalls :
               Accepted("bgpstream_add_filter", FilterCalls[i].ret))
              => Len(FilterCalls) = Len(query.filters)

\* C8 witness: a stream opened from a query that holds the same entry
\* twice: both were forwarded
C8_Witness ==
    /\ phase = "open"
    /\ Len(query.filters) = 2
    /\ query.filters[1] = query.filters[2]
    /\ Len(FilterCalls) = 2

\* the u32 `value` is the number of the timestamp t
IsEpochSeconds(value, t) == t.hi = 0 /\ t.lo = value

IntervalCalls ==
    SelectSeq(log, LAMBDA c : c.op \in {"bgpstream_add_interval_filter",
                                        "bgpstream_add_recent_interval_filter"})

\* C10: Open makes no interval call; Interval{start, stop} makes one
\* bgpstream_add_interval_filter call, with the epoch seconds of start and
\* of the stop, or 0 for no stop; a refusal is reported as AddInterval.
C10_IntervalAsEpochSeconds ==
    (phase # "building" /\ query.interval.kind # "Since") =>
        /\ query.interval.kind = "Open" => IntervalCalls = <<>>
        /\ query.interval.kind = "Interval" =>
              /\ Len(IntervalCalls) <= 1
              /\ \A i \in DOMAIN IntervalCalls :
                    LET c == IntervalCalls[i]
                    IN  /\ c.op = "bgpstream_add_interval_filter"
                        /\ IsEpochSeconds(c.args[1], query.interval.start)
                        /\ IF IsSome(query.interval.stop)
                              THEN IsEpochSeconds(c.args[2], query.interval.stop[1])
                              ELSE c.args[2] = 0
                        /\ c.ret # 1 => run_result = <<"Err", "AddInterval">>

\* the calls that apply a Since interval
RecentCalls ==
    SelectSeq(log, LAMBDA c : c.op = "bgpstream_add_recent_interval_filter")

\* the descriptor "<amount> <u>" written out for the amounts drawn
DescriptorOf(amount, unit) ==
    CASE amount = 1 /\ unit = "Seconds" -> "1 s"
      [] amount = 1 /\ unit = "Minutes" -> "1 m"
      [] amount = 1 /\ unit = "Hours" -> "1 h"
      [] amount = 1 /\ unit = "Days" -> "1 d"
      [] amount = 90 /\ unit = "Seconds" -> "90 s"
      [] amount = 90 /\ unit = "Minutes" -> "90 m"
      [] amount = 90 /\ unit = "Hours" -> "90 h"
      [] amount = 90 /\ unit = "Days" -> "90 d"
      [] OTHER -> "?"

\* the open got as far as the interval: create and every filter accepted
ReachedInterval ==
    /\ phase # "building"
    /\ run_result \notin {<<"Err", "Create">>, <<"Err", "AddFilter">>}

\* C11: for a Since{amount, unit, live} interval BgpStream::new calls
\* bgpstream_add_recent_interval_filter exactly once, with the descriptor
\* "<amount> <u>" (u one of s, m, h, d) and the flag 1 for live, 0
\* otherwise; a refusal is returned as AddRecentInterval; it never calls
\* bgpstream_add_interval_filter.
C11_SinceAsRecentInterval ==
    (phase # "building" /\ query.interval.kind = "Since") =>
        /\ \A i \in DOMAIN log : log[i].op # "bgpstream_add_interval_filter"
        /\ Len(RecentCalls) = (IF ReachedInterval THEN 1 ELSE 0)
        /\ \A i \in DOMAIN RecentCalls :
              LET c == RecentCalls[i]
              IN  /\ c.args = <<DescriptorOf(query.interval.amount, query.interval.unit),
                                IF query.interval.live THEN 1 ELSE 0>>
                  /\ (c.ret # 1) <=> (run_result = <<"Err", "AddRecentInterval">>)

\* C11 witness: a stream opened for the last hour, live: the one call made
\* carried "1 h" and 1
C11_Witness ==
    /\ phase = "open"
    /\ query.interval = Since(1, "Hours", TRUE)
    /\ Len(RecentCalls) = 1
    /\ RecentCalls[1].args = <<"1 h", 1>>

\* the calls made for the option triples
TripleCalls == SelectSeq(log, LAMBDA c : c.op \in {OptionCalls[1], OptionCalls[2], OptionCalls[3]})

\* the error BgpStream::new returns when the call of step p (1: interface,
\* 2: option, 3: set) of a triple is refused
TripleError(triple, p) ==
    CASE p = 1 -> <<"Err", "InterfaceNotFound", triple[1]>>
      [] p = 2 -> <<"Err", "InterfaceOptionNotFound", triple[2]>>
      [] p = 3 -> <<"Err", "SetInterfaceOption">>

\* C12: the option triples are processed in insertion order, each by
\* resolving the interface by name, then the option by name within that
\* interface, then setting the value; the first call refused is the last
\* call made for any triple, and the error is InterfaceNotFound with the
\* interface name, InterfaceOptionNotFound with the option name, or
\* SetInterfaceOption; a stream is returned only when all three calls of
\* every triple were made.
C12_OptionTriples ==
    phase # "building" =>
        /\ \A j \in DOMAIN TripleCalls :
              LET c == TripleCalls[j]
                  k == ((j - 1) \div 3) + 1
                  p == ((j - 1) % 3) + 1
              IN  /\ k <= Len(query.data_interface_options)
                  /\ c.op = OptionCalls[p]
                  /\ c.args[Len(c.args)] = query.data_interface_options[k][p]
                  /\ p = 2 => c.args[1] = TripleCalls[j - 1].ret
                  /\ p = 3 => c.args[1] = TripleCalls[j - 1].ret
                  /\ Accepted(c.op, c.ret) =>
                        \/ j < Len(TripleCalls)
                        \/ p = 3 /\ k = Len(query.data_interface_options)
                  /\ ~Accepted(c.op, c.ret) =>
                        /\ j = Len(TripleCalls)
                        /\ run_result = TripleError(query.data_interface_options[k], p)
        /\ run_result = <<"Ok">> =>
              Len(TripleCalls) = 3 * Len(query.data_interface_options)

\* C12 witness: two triples, the option of the first is not found: two
\* calls were made and none for the second triple
C12_Witness ==
    /\ phase = "failed"
    /\ Len(query.data_interface_options) = 2
    /\ query.data_interface_options[1] # query.data_interface_options[2]
    /\ Len(TripleCalls) = 2
    /\ run_result = <<"Err", "InterfaceOptionNotFound", "cache-dir">>

\* the caller's first demand was next_record(): it pulled the first record
\* of the feed
FirstRecordPulled ==
    hist # <<>> /\ hist[1].op = "next_record" /\ feed0 # <<>>

\* the statuses Record::new knows by name
NamedStatuses ==
    {RECORD_STATUS_VALID_RECORD, RECORD_STATUS_FILTERED_SOURCE,
     RECORD_STATUS_EMPTY_SOURCE, RECORD_STATUS_OUTSIDE_TIME_INTERVAL,
     RECORD_STATUS_CORRUPTED_SOURCE, RECORD_STATUS_CORRUPTED_RECORD,
     RECORD_STATUS_UNSUPPORTED_RECORD}

\* C13: the status of a record that was pulled (positive return code,
\* non-null pointer) is classified totally: Valid gives a Record;
\* FilteredSource, EmptySource and CorruptedSource give the one error
\* RecordSourceEmptyOrCorrupted; CorruptedRecord gives RecordCorrupted;
\* UnsupportedRecord gives RecordUnsupported; a status that is none of the
\* seven named ones gives UnknownRecordStatus; no status but Valid gives a
\* Record.
C13_StatusClassification ==
    (FirstRecordPulled /\ feed0[1].res > 0 /\ ~feed0[1].null) =>
        LET status == feed0[1].status
            r == hist[1].ret
        IN  /\ status = RECORD_STATUS_VALID_RECORD => r.tag = "Some"
            /\ status \in {RECORD_STATUS_FILTERED_SOURCE, RECORD_STATUS_EMPTY_SOURCE,
                            RECORD_STATUS_CORRUPTED_SOURCE}
                  => r = RErr(<<"RecordSourceEmptyOrCorrupted">>)
            /\ status = RECORD_STATUS_CORRUPTED_RECORD
                  => r = RErr(<<"RecordCorrupted">>)
            /\ status = RECORD_STATUS_UNSUPPORTED_RECORD
                  => r = RErr(<<"RecordUnsupported">>)
            /\ status \notin NamedStatuses => r = RErr(<<"UnknownRecordStatus">>)
            /\ r.tag = "Some" => status = RECORD_STATUS_VALID_RECORD

\* C13 witness: a record pulled from a filtered source was answered with
\* RecordSourceEmptyOrCorrupted
C13_Witness ==
    /\ FirstRecordPulled /\ feed0[1].res > 0 /\ ~feed0[1].null
    /\ feed0[1].status = RECORD_STATUS_FILTERED_SOURCE
    /\ hist[1].ret = RErr(<<"RecordSourceEmptyOrCorrupted">>)

\* C14: the return code of bgpstream_get_next_record decides before any
\* status does: 0 gives Ok(None), a negative code gives GetNextRecord, a
\* positive code with a null record pointer gives GetNextRecordNull,
\* whatever status and payload the record memory holds.
C14_ReturnCodeFirst ==
    FirstRecordPulled =>
        LET rec == feed0[1]
            r == hist[1].ret
        IN  /\ rec.res = 0 => r = RNone
            /\ rec.res < 0 => r = RErr(<<"GetNextRecord">>)
            /\ (rec.res > 0 /\ rec.null) => r = RErr(<<"GetNextRecordNull">>)

\* C14 witness: the pull returned 0 while the record memory held the status
\* of a corrupted record: the answer was Ok(None)
C14_Witness ==
    /\ FirstRecordPulled
    /\ feed0[1].res = 0
    /\ feed0[1].status = RECORD_STATUS_CORRUPTED_RECORD
    /\ hist[1].ret = RNone

\* the caller's next_element() demands, and the first of them
ElemDemands == {i \in DOMAIN hist : hist[i].op = "next_element"}
FirstElemDemand == CHOOSE i \in ElemDemands : \A j \in ElemDemands : i <= j

\* the caller pulled the one record of the feed with next_record() and then
\* its first element with next_element(): the element pulled, what
\* next_element() returned for it, and the record's time
ElementPulled ==
    /\ Len(feed0) = 1 /\ feed0[1].elems # <<>>
    /\ \A i \in DOMAIN hist : hist[i].op # "next"
    /\ ElemDemands # {}
PulledElem == feed0[1].elems[1]
PulledResult == hist[FirstElemDemand].ret
PulledRecordTime == TimeOf(feed0[1].time_sec, feed0[1].time_usec)

\* the element was returned (return code 1, non-null pointer)
ElementGiven == ElementPulled /\ PulledElem.res = 1 /\ ~PulledElem.null

\* C15: next_element() returns Ok(None) exactly when
\* bgpstream_record_get_next_elem returned 0; it returns GetNextElement for
\* every return code other than 0 and 1, and GetNextElementNull for return
\* code 1 with a null element pointer; whatever the element memory holds.
C15_ElementPullOutcome ==
    /\ \A i \in ElemDemands :
          LET c == log[hist[i].to]
              r == hist[i].ret
          IN  /\ hist[i].from = hist[i].to
              /\ c.op = "bgpstream_record_get_next_elem"
              /\ (r = RNone) <=> (c.ret = 0)
              /\ c.ret \notin {0, 1} => r = RErr(<<"GetNextElement">>)
    /\ (ElementPulled /\ PulledElem.res = 1 /\ PulledElem.null)
          => PulledResult = RErr(<<"GetNextElementNull">>)

\* C15 witness: the pull returned 2 for an element whose peer address does
\* not decode: the answer was GetNextElement
C15_Witness ==
    /\ ElementPulled
    /\ PulledElem.res = 2
    /\ PulledElem.peer_ip = RawBadAddr
    /\ PulledResult = RErr(<<"GetNextElement">>)

\* the element was returned and its peer address decodes, so that the
\* match on the type tag is reached
TagReached == ElementGiven /\ parse_bgpstream_ip(PulledElem.peer_ip).tag = "Some"

\* C16: the element type tag decides the variant: ANNOUNCEMENT gives
\* Announcement(Update) and RIB gives RIB(Update) with the same Update for
\* the same fields; WITHDRAWAL gives Withdrawal(prefix) and depends on the
\* prefix alone; PEERSTATE gives PeerState{from, to}; every other tag gives
\* UnknownElementType.
C16_TypeDispatch ==
    TagReached =>
        LET e == PulledElem
            r == PulledResult
            update == DecodeUpdate([e EXCEPT !.type_ = ELEM_TYPE_RIB])
            prefix == parse_bgpstream_prefix(e.prefix)
        IN  /\ e.type_ \in {ELEM_TYPE_ANNOUNCEMENT, ELEM_TYPE_RIB} =>
                  IF update.tag = "Err" THEN r = update
                  ELSE /\ r.tag = "Some"
                       /\ r.val[1].e =
                            [variant |-> IF e.type_ = ELEM_TYPE_ANNOUNCEMENT
                                         THEN "Announcement" ELSE "RIB",
                             payload |-> update.val[1]]
            /\ e.type_ = ELEM_TYPE_WITHDRAWAL =>
                  IF prefix.tag = "Err" THEN r = prefix
                  ELSE /\ r.tag = "Some"
                       /\ r.val[1].e = [variant |-> "Withdrawal",
                                        payload |-> prefix.val[1]]
            /\ (e.type_ = ELEM_TYPE_PEERSTATE /\ r.tag = "Some") =>
                  /\ r.val[1].e.variant = "PeerState"
                  /\ DOMAIN r.val[1].e.payload = {"from", "to"}
            /\ e.type_ \notin {ELEM_TYPE_ANNOUNCEMENT, ELEM_TYPE_RIB,
                                ELEM_TYPE_WITHDRAWAL, ELEM_TYPE_PEERSTATE}
                  => r = RErr(<<"UnknownElementType">>)

\* C16 witness: a withdrawal whose next hop and origin code do not decode
\* was returned as Withdrawal(prefix)
C16_Witness ==
    /\ TagReached
    /\ PulledElem.type_ = ELEM_TYPE_WITHDRAWAL
    /\ PulledElem.nexthop = RawBadAddr
    /\ PulledElem.has_origin # 0 /\ PulledElem.origin = MaxOrigin
    /\ PulledResult.tag = "Some"
    /\ PulledResult.val[1].e.variant = "Withdrawal"

\* C17 as stated: an element with a nonzero origin timestamp (seconds and
\* microseconds not both 0) has that origin time; any other element has
\* the time of its record.
C17_OriginTimeIfNonzero ==
    (ElementGiven /\ PulledResult.tag = "Some") =>
        PulledResult.val[1].time =
            IF PulledElem.orig_time_sec # 0 \/ PulledElem.orig_time_usec # 0
            THEN TimeOf(PulledElem.orig_time_sec, PulledElem.orig_time_usec)
            ELSE PulledRecordTime

\* C17 as amended: an element whose origin seconds are nonzero has the
\* origin time, origin seconds plus origin microseconds; an element whose
\* origin seconds are 0 has the time of its record, record seconds plus
\* record microseconds, whatever its origin microseconds are.
C17_OriginTimeIfSecondsNonzero ==
    (ElementGiven /\ PulledResult.tag = "Some") =>
        PulledResult.val[1].time =
            IF PulledElem.orig_time_sec # 0
            THEN TimeOf(PulledElem.orig_time_sec, PulledElem.orig_time_usec)
            ELSE PulledRecordTime

\* C17 witness: an element with origin seconds was returned with its
\* origin time, which is not the time of its record
C17_Witness ==
    /\ ElementGiven /\ PulledResult.tag = "Some"
    /\ PulledElem.orig_time_sec # 0
    /\ PulledResult.val[1].time =
          [secs |-> PulledElem.orig_time_sec + 1, micros |-> 500000]
    /\ PulledResult.val[1].time # PulledRecordTime

\* the element is an announcement or a RIB entry whose addresses decode,
\* so that the optional fields are reached
OptionalsReached ==
    /\ TagReached
    /\ PulledElem.type_ \in {ELEM_TYPE_ANNOUNCEMENT, ELEM_TYPE_RIB}
    /\ parse_bgpstream_prefix(PulledElem.prefix).tag = "Some"
    /\ parse_bgpstream_ip(PulledElem.nexthop).tag = "Some"

\* the origin codes and what they decode to
OriginName(code) ==
    CASE code = ORIGIN_IGP -> "Igp"
      [] code = ORIGIN_EGP -> "Egp"
      [] code = ORIGIN_INCOMPLETE -> "Incomplete"
      [] OTHER -> "?"

\* C18: MED, local preference and origin type are present exactly when
\* their has-flag is nonzero; with the flag 0 the field is absent whatever
\* the raw value is, and an invalid origin code is ignored; with the flag
\* set MED and local preference carry the raw value and the origin code
\* gives Igp, Egp or Incomplete, or fails with UnknownOriginType.
C18_OptionalFields ==
    OptionalsReached =>
        LET e == PulledElem
            r == PulledResult
            known == e.origin \in {ORIGIN_IGP, ORIGIN_EGP, ORIGIN_INCOMPLETE}
        IN  /\ (e.has_origin # 0 /\ ~known) => r = RErr(<<"UnknownOriginType">>)
            /\ (e.has_origin = 0 \/ known) => r.tag = "Some"
            /\ r.tag = "Some" =>
                  LET update == r.val[1].e.payload
                  IN  /\ update.med = IF e.has_med # 0 THEN Some(e.med) ELSE None
                      /\ update.local_pref =
                            IF e.has_local_pref # 0 THEN Some(e.local_pref) ELSE None
                      /\ update.origin_type =
                            IF e.has_origin # 0 THEN Some(OriginName(e.origin))
                            ELSE None

\* C18 witness: MED flag 0 with raw value 100 and origin flag 0 with an
\* invalid origin code: both absent, local preference present(100)
C18_Witness ==
    /\ OptionalsReached
    /\ PulledElem.has_med = 0 /\ PulledElem.med = 100
    /\ PulledElem.has_origin = 0 /\ PulledElem.origin = MaxOrigin
    /\ PulledElem.has_local_pref = 1
    /\ PulledResult.tag = "Some"
    /\ PulledResult.val[1].e.payload.med = None
    /\ PulledResult.val[1].e.payload.origin_type = None
    /\ PulledResult.val[1].e.payload.local_pref = Some(100)

\* the nine native peer-state codes and the state each stands for
PeerStateCodes ==
    {ELEM_PEERSTATE_UNKNOWN, ELEM_PEERSTATE_IDLE, ELEM_PEERSTATE_CONNECT,
     ELEM_PEERSTATE_ACTIVE, ELEM_PEERSTATE_OPENSENT, ELEM_PEERSTATE_OPENCONFIRM,
     ELEM_PEERSTATE_ESTABLISHED, ELEM_PEERSTATE_CLEARING, ELEM_PEERSTATE_DELETED}
PeerStateName(code) ==
    CASE code = ELEM_PEERSTATE_UNKNOWN -> "Unknown"
      [] code = ELEM_PEERSTATE_IDLE -> "Idle"
      [] code = ELEM_PEERSTATE_CONNECT -> "Connect"
      [] code = ELEM_PEERSTATE_ACTIVE -> "Active"
      [] code = ELEM_PEERSTATE_OPENSENT -> "OpenSent"
      [] code = ELEM_PEERSTATE_OPENCONFIRM -> "OpenConfirm"
      [] code = ELEM_PEERSTATE_ESTABLISHED -> "Established"
      [] code = ELEM_PEERSTATE_CLEARING -> "Clearing"
      [] code = ELEM_PEERSTATE_DELETED -> "Deleted"
      [] OTHER -> "?"

\* C19: the old and the new state of a peer-state element decode from the
\* nine native codes to the nine states, one to one: each code gives its
\* own state and two codes give the same state only if they are the same
\* code; a code outside the nine, as old or as new state, fails with
\* UnknownPeerState.
C19_PeerStateOneToOne ==
    (TagReached /\ PulledElem.type_ = ELEM_TYPE_PEERSTATE) =>
        LET e == PulledElem
            r == PulledResult
        IN  /\ Cardinality(PeerStateCodes) = 9
            /\ (e.old_state \in PeerStateCodes /\ e.new_state \in PeerStateCodes) =>
                  /\ r.tag = "Some"
                  /\ r.val[1].e.payload = [from |-> PeerStateName(e.old_state),
                                           to |-> PeerStateName(e.new_state)]
                  /\ (r.val[1].e.payload.from = r.val[1].e.payload.to)
                        <=> (e.old_state = e.new_state)
            /\ (e.old_state \notin PeerStateCodes \/ e.new_state \notin PeerStateCodes)
                  => r = RErr(<<"UnknownPeerState">>)

\* C19 witness: a peer going from OPENSENT to OPENCONFIRM was returned as
\* PeerState{from: OpenSent, to: OpenConfirm}
C19_Witness ==
    /\ TagReached /\ PulledElem.type_ = ELEM_TYPE_PEERSTATE
    /\ PulledElem.old_state = ELEM_PEERSTATE_OPENSENT
    /\ PulledElem.new_state = ELEM_PEERSTATE_OPENCONFIRM
    /\ PulledResult.tag = "Some"
    /\ PulledResult.val[1].e.payload = [from |-> "OpenSent", to |-> "OpenConfirm"]

\* C20: the version tag alone decides the address: the IPv4 tag gives the
\* IPv4 address of the 4 address bytes in order, the IPv6 tag the IPv6
\* address of the 16 address bytes in order, every other tag fails with
\* InvalidIpAddress.  Stated for the peer address of an element whose
\* other fields decode.
C20_AddressBytesInOrder ==
    (ElementGiven /\ DecodeElementType(PulledElem).tag = "Some") =>
        LET ip == PulledElem.peer_ip
            r == PulledResult
        IN  /\ ip.version = ADDR_VERSION_IPV4 =>
                  /\ r.tag = "Some"
                  /\ r.val[1].peer_ip = [family |-> "V4",
                                         octets |-> SubSeq(ip.bytes, 1, 4)]
            /\ ip.version = ADDR_VERSION_IPV6 =>
                  /\ r.tag = "Some"
                  /\ r.val[1].peer_ip = [family |-> "V6", octets |-> ip.bytes]
            /\ ip.version \notin {ADDR_VERSION_IPV4, ADDR_VERSION_IPV6}
                  => r = RErr(<<"InvalidIpAddress">>)

\* C21: a prefix decodes to address/mask for every mask length up to the
\* width of the family of its address (32 for IPv4, 128 for IPv6), the
\* address being the address bytes in order (192.0.2.0 with mask 24 is
\* 192.0.2.0/24); a longer mask fails with InvalidMaskLen; an unknown
\* version tag fails with InvalidIpAddress whatever the mask is.  Stated
\* for the prefix of a withdrawal.
C21_PrefixDecode ==
    (TagReached /\ PulledElem.type_ = ELEM_TYPE_WITHDRAWAL) =>
        LET pf == PulledElem.prefix
            r == PulledResult
            v4 == pf.address.version = ADDR_VERSION_IPV4
            v6 == pf.address.version = ADDR_VERSION_IPV6
            width == IF v4 THEN 32 ELSE 128
        IN  /\ (~v4 /\ ~v6) => r = RErr(<<"InvalidIpAddress">>)
            /\ ((v4 \/ v6) /\ pf.mask_len > width) => r = RErr(<<"InvalidMaskLen">>)
            /\ ((v4 \/ v6) /\ pf.mask_len <= width) =>
                  /\ r.tag = "Some"
                  /\ r.val[1].e.payload =
                        [addr |-> [family |-> IF v4 THEN "V4" ELSE "V6",
                                   octets |-> IF v4 THEN SubSeq(pf.address.bytes, 1, 4)
                                              ELSE pf.address.bytes],
                         prefix_len |-> pf.mask_len]

\* the entries of a raw list before its first null entry (all of them when
\* there is none)
BeforeNull(raw) ==
    LET nulls == {i \in DOMAIN raw : raw[i].null}
    IN  IF nulls = {} THEN Len(raw)
        ELSE (CHOOSE i \in nulls : \A j \in nulls : i <= j) - 1

\* C22: the decoded AS path has one segment for every raw segment before
\* the first null segment, in order, and nothing for what follows it; a
\* single-AS segment gives Num(asn), any other segment gives the Set of
\* exactly its asn_cnt first numbers in order; an empty path gives an
\* empty path.
C22_AsPathDecode ==
    (OptionalsReached /\ PulledResult.tag = "Some") =>
        LET raw == PulledElem.as_path
            path == PulledResult.val[1].e.payload.as_path
        IN  /\ Len(path) = BeforeNull(raw)
            /\ \A i \in 1..BeforeNull(raw) :
                  IF raw[i].is_asn
                  THEN path[i].variant = "Num" /\ path[i].asn = raw[i].asn
                  ELSE /\ path[i].variant = "Set"
                       /\ path[i].list = [j \in 1..raw[i].asn_cnt |-> raw[i].set[j]]

\* C22 witness: a path of an AS number, a set of two with a third number
\* behind it in memory, and a null segment, decoded to two segments
C22_Witness ==
    /\ OptionalsReached /\ PulledResult.tag = "Some"
    /\ Len(PulledElem.as_path) = 3
    /\ PulledElem.as_path[1].is_asn
    /\ PulledElem.as_path[2].asn_cnt = 2 /\ Len(PulledElem.as_path[2].set) = 3
    /\ PulledElem.as_path[3].null
    /\ Len(PulledResult.val[1].e.payload.as_path) = 2

\* C23: the decoded communities are the (asn, value) pairs of the raw
\* entries at index 0, 1, 2, ... before the first null entry, in order; a
\* null entry at index 0 gives the empty list.
C23_CommunitiesDecode ==
    (OptionalsReached /\ PulledResult.tag = "Some") =>
        LET raw == PulledElem.communities
            communities == PulledResult.val[1].e.payload.communities
        IN  /\ Len(communities) = BeforeNull(raw)
            /\ \A i \in 1..BeforeNull(raw) :
                  communities[i] = <<raw[i].asn, raw[i].value>>
            /\ (raw # <<>> /\ raw[1].null) => communities = <<>>

\* C23 witness: 0:0, then 65000:100, then the null entry: two pairs
C23_Witness ==
    /\ OptionalsReached /\ PulledResult.tag = "Some"
    /\ Len(PulledElem.communities) = 3
    /\ PulledElem.communities[1].asn = 0 /\ ~PulledElem.communities[1].null
    /\ PulledElem.communities[2].asn = 65000
    /\ PulledElem.communities[3].null
    /\ Len(PulledResult.val[1].e.payload.communities) = 2

\* C24: a builder method (a filter by raw name, set_data_interface_option,
\* cache) handed a string with a NUL byte inside fails with an error that
\* is returned to the caller, and leaves the Query as it was.
C24_NulValueIsAnError ==
    \A i \in DOMAIN hist :
        hist[i].op \in {"collector_name", "set_data_interface_option", "cache"} =>
            hist[i].ret.tag = "Err"

\* the record pulls that gave a Valid record, and its type tag
PulledValid(i) ==
    /\ hist[i].op = "next_record"
    /\ hist[i].from = hist[i].to
    /\ log[hist[i].to].ret > 0 /\ log[hist[i].to].h # 0
    /\ feed0[1].status = RECORD_STATUS_VALID_RECORD

\* C25: a pulled record with Valid status whose type tag is neither Update
\* nor RIB is rejected with RecordCorrupted by next_record() itself: no
\* Record is produced for it.
C25_BadTypeRejectedByPull ==
    \A i \in DOMAIN hist :
        (PulledValid(i) /\ feed0[1].type_ \notin {BGPSTREAM_UPDATE, BGPSTREAM_RIB}) =>
            hist[i].ret = RErr(<<"RecordCorrupted">>)

\* the bytes of a buffer before its first NUL
UpToNul(b) ==
    SubSeq(b, 1, CHOOSE k \in 0..Len(b) :
                    /\ \A j \in 1..k : b[j] # 0
                    /\ k < Len(b) => b[k + 1] = 0)

\* the buffer an accessor of the record's names reads
NameRead(op) ==
    CASE op = "project_name" -> feed0[1].project_name
      [] op = "collector_name" -> feed0[1].collector_name
      [] op = "router_name" -> feed0[1].router_name

\* C26: project, collector and router name are the bytes of their buffer
\* before the first NUL (the whole buffer without a NUL, the empty string
\* with a NUL first) when these are well-formed text, and an
\* IntoStringError when they are not; the result holds no NUL, a change of
\* a byte behind the first NUL does not change the result, and the accessor
\* never panics.
C26_NameUpToNul ==
    \A i \in DOMAIN hist :
        hist[i].op \in {"project_name", "collector_name", "router_name"} =>
            LET b == NameRead(hist[i].op)
                r == hist[i].ret
            IN  /\ r.tag \in {"Some", "Err"}
                /\ r.tag = "Some" <=> Utf8Valid(UpToNul(b), 1)
                /\ r.tag = "Some" =>
                      /\ r.val[1] = UpToNul(b)
                      /\ \A j \in DOMAIN r.val[1] : r.val[1][j] # 0
                /\ r.tag = "Err" => r.err = <<"IntoStringError">>
                /\ \A j \in DOMAIN b, c \in NameBytes :
                      j > Len(UpToNul(b)) + 1 =>
                          array_to_string([b EXCEPT ![j] = c]) = r
                /\ (b[1] = 0) => r = RSome(<<>>)
                /\ (\A j \in DOMAIN b : b[j] # 0 /\ b[j] < 128) => r = RSome(b)

\* C26 witness: project_name read from a buffer that holds 'A', NUL and a
\* byte that is no text on its own: the name is "A"
C26_Witness ==
    \E i \in DOMAIN hist :
        /\ hist[i].op = "project_name"
        /\ feed0[1].project_name[1] = 65
        /\ feed0[1].project_name[2] = 0
        /\ feed0[1].project_name[MaxName] = 169
        /\ hist[i].ret = RSome(<<65>>)

\* C27: next_record() on a stream that holds a current record returns that
\* record without a call of bgpstream_get_next_record, and the stream holds
\* none afterwards; on a stream that holds none it pulls a new record with
\* exactly one call of bgpstream_get_next_record.
C27_HeldRecordFirst ==
    [][(Len(hist') = Len(hist) + 1 /\ hist'[Len(hist')].op = "next_record") =>
          IF IsSome(current_record)
          THEN /\ log' = log
               /\ hist'[Len(hist')].ret = RSome(current_record[1])
               /\ current_record' = None
          ELSE /\ Len(log') = Len(log) + 1
               /\ log'[Len(log')].op = "bgpstream_get_next_record"
               /\ current_record' = None]_vars

\* C27 witness: the iterator gave an element, so the stream holds its
\* record; next_record() then returned a record without any call
C27_Witness ==
    \E i \in DOMAIN hist :
        /\ i > 1
        /\ hist[i - 1].op = "next" /\ hist[i - 1].ret.tag = "Some"
        /\ hist[i].op = "next_record" /\ hist[i].ret.tag = "Some"
        /\ hist[i].from > hist[i].to
        /\ current_record = None

\* a libbgpstream pull that reported a failure by its return value
FailedPull(c) ==
    \/ c.op = "bgpstream_get_next_record" /\ (c.ret < 0 \/ (c.ret > 0 /\ c.h = 0))
    \/ c.op = "bgpstream_record_get_next_elem" /\ c.ret \notin {0, 1}

\* C28: nothing is retried.  A configuration call of run() that libbgpstream
\* refused is the last one run() made, and run() returned an error; a pull
\* that failed within a next_record(), a next_element() or a demand on the
\* iterator is the last call of that demand, and the demand returned an
\* error.
C28_NothingRetried ==
    /\ \A i \in DOMAIN ConfigCalls :
          (i <= Len(OpenOrder(query))
           /\ ~Accepted(ConfigCalls[i].op, ConfigCalls[i].ret)) =>
              /\ i = Len(ConfigCalls)
              /\ phase = "failed"
              /\ run_result[1] = "Err"
              /\ run_result[2] = ErrorOf(ConfigCalls[i].op)
    /\ \A d \in DOMAIN hist :
          \A i \in hist[d].from..hist[d].to :
              FailedPull(log[i]) => i = hist[d].to /\ hist[d].ret.tag = "Err"

\* C28 witness: a demand on the iterator pulled a record and then an element
\* whose pull failed, and returned the error
C28_Witness ==
    \E d \in DOMAIN hist :
        /\ hist[d].op = "next"
        /\ hist[d].to > hist[d].from
        /\ log[hist[d].to].op = "bgpstream_record_get_next_elem"
        /\ FailedPull(log[hist[d].to])
        /\ hist[d].ret = RErr(<<"GetNextElement">>)

\* C29: cache(dir) does to the Query what
\* set_data_interface_option("broker", "cache-dir", dir) does: it appends
\* exactly the triple (broker, cache-dir, dir) to the option triples and
\* leaves the rest of the Query as it was.
C29_CacheIsBrokerOption ==
    \A dir \in OptionValues :
        /\ Cache(query, dir) =
              SetDataInterfaceOption(query, "broker", "cache-dir", dir)
        /\ Cache(query, dir).data_interface_options =
              Append(query.data_interface_options, <<"broker", "cache-dir", dir>>)
        /\ Cache(query, dir).filters = query.filters
        /\ Cache(query, dir).interval = query.interval
        /\ Cache(query, dir).rib_period = query.rib_period

\* C29 witness: a Query that holds an option triple of another interface
\* and, behind it, the triple cache() pushes
C29_Witness ==
    /\ Len(query.data_interface_options) = 2
    /\ query.data_interface_options[1][1] = "kafka"
    /\ query.data_interface_options[2] = <<"broker", "cache-dir", "/tmp/bgpstream_cache">>
    /\ query.filters # <<>>

\* C30: over a finite source every demand on the iterator returns after a
\* bounded number of pulls (at most two per record and element of the
\* source, and the one that finds the end), and a caller that keeps
\* demanding is eventually answered None at the end of the stream.
C30_DemandsTerminate ==
    /\ [](\A d \in DOMAIN hist :
            hist[d].to - hist[d].from + 1 <= 2 * MaxFeed + 1)
    /\ (phase = "open") ~>
          (/\ hist # <<>>
           /\ hist[Len(hist)].ret = RNone
           /\ AtEndOfStream(hist[Len(hist)])
           /\ feed = <<>>)

\* C30 witness: a record with two elements, a record whose pull failed,
\* and the end of the stream, reached with the fourth demand
C30_Witness ==
    /\ Len(hist) = 4
    /\ hist[1].ret.tag = "Some" /\ hist[2].ret.tag = "Some"
    /\ hist[3].ret.tag = "Err"
    /\ hist[4].ret = RNone /\ AtEndOfStream(hist[4])
    /\ feed = <<>>

\* C31: when the element pull on the current record returns 0 within a
\* demand on the iterator, the demand does not end there: it drops the
\* current record and its next call pulls the following record.  A valid
\* record without elements thus gives no item and does not end the demand.
C31_ExhaustedRecordIsReplaced ==
    \A d \in DOMAIN hist :
        hist[d].op = "next" =>
            \A i \in hist[d].from..hist[d].to :
                (log[i].op = "bgpstream_record_get_next_elem" /\ log[i].ret = 0) =>
                    /\ i < hist[d].to
                    /\ log[i + 1].op = "bgpstream_get_next_record"
                    /\ ~log[i + 1].held

\* C31 witness: the first demand pulled a valid record without elements,
\* found it exhausted, pulled the second record and returned its element
C31_Witness ==
    /\ hist # <<>>
    /\ hist[1].op = "next" /\ hist[1].ret.tag = "Some"
    /\ hist[1].to = hist[1].from + 3
    /\ feed0[1].elems = <<>> /\ IsValidPull(feed0[1])
    /\ log[hist[1].from + 1].op = "bgpstream_record_get_next_elem"
    /\ log[hist[1].from + 1].ret = 0
    /\ log[hist[1].from + 2].op = "bgpstream_get_next_record"

\* C32: a step of the builder changes at most one of the four components of
\* the Query.  A filter method appends one entry behind the entries held,
\* which keep their order; an option method appends one triple likewise;
\* interval and rib_period set their component to the value given, whatever
\* it held before; run() leaves the Query as it was.
C32_BuilderFrame ==
    [][/\ Cardinality({c \in DOMAIN query : query'[c] # query[c]}) <= 1
       /\ query'.filters # query.filters =>
             /\ Len(query'.filters) = Len(query.filters) + 1
             /\ SubSeq(query'.filters, 1, Len(query.filters)) = query.filters
       /\ query'.data_interface_options # query.data_interface_options =>
             /\ Len(query'.data_interface_options) =
                   Len(query.data_interface_options) + 1
             /\ SubSeq(query'.data_interface_options, 1,
                       Len(query.data_interface_options)) =
                   query.data_interface_options
       /\ \A f \in FilterEntries :
             PushFilter(query, f[1], f[2]) =
                 [query EXCEPT !.filters = Append(@, f)]
       /\ \A interval \in Intervals :
             SetInterval(query, interval) = [query EXCEPT !.interval = interval]
       /\ \A secs \in RibPeriods :
             SetRibPeriod(query, secs) = [query EXCEPT !.rib_period = Some(secs)]
       /\ phase' # phase => query' = query]_vars

\* C32 witness: a Query with two different filters, an interval, a RIB
\* period and two option triples, as it is after run()
C32_Witness ==
    /\ phase = "open"
    /\ Len(query.filters) = 2 /\ query.filters[1] # query.filters[2]
    /\ query.interval.kind = "Interval"
    /\ IsSome(query.rib_period)
    /\ Len(query.data_interface_options) = 2

\* C33: after a demand on the iterator that ended with an error of the
\* element pull or the element decode, the following demand on the iterator
\* starts with an element pull on the same record handle, the stream still
\* holding that record; after a demand that ended with an error of the
\* record pull, the following demand starts with a record pull, the stream
\* holding no record.  The pull that failed is not made again: every call of
\* the following demand is a new call.
C33_AfterAnError ==
    \A d \in DOMAIN hist :
        (/\ (d + 1) \in DOMAIN hist
         /\ hist[d].op = "next" /\ hist[d + 1].op = "next"
         /\ hist[d].ret.tag = "Err") =>
            LET failed == log[hist[d].to]
                first == log[hist[d + 1].from]
            IN  /\ hist[d].to >= hist[d].from
                /\ hist[d + 1].from = hist[d].to + 1
                /\ hist[d + 1].to >= hist[d + 1].from
                /\ IF failed.op = "bgpstream_record_get_next_elem"
                   THEN /\ first.op = "bgpstream_record_get_next_elem"
                        /\ first.h = failed.h
                        /\ first.held
                   ELSE /\ failed.op = "bgpstream_get_next_record"
                        /\ first.op = "bgpstream_get_next_record"
                        /\ ~first.held

\* C33 witness: the first element of a record failed to be pulled, and the
\* following demand returned the second element of the same record
C33_Witness ==
    /\ Len(hist) >= 2
    /\ hist[1].op = "next" /\ hist[1].ret = RErr(<<"GetNextElement">>)
    /\ hist[2].op = "next" /\ hist[2].ret.tag = "Some"
    /\ hist[2].from = hist[2].to
    /\ log[hist[2].to].op = "bgpstream_record_get_next_elem"
    /\ log[hist[2].to].h = log[hist[1].to].h

C36_HandedOutRecord ==
    LET IsElement(i) == hist[i].op \in {"next", "next_element"}
                        /\ hist[i].ret.tag = "Some"
        HandedOut(k) == /\ hist[k].op = "next_record"
                        /\ hist[k].ret.tag = "Some"
                        /\ hist[k].from > hist[k].to
    IN  /\ \A i, j \in DOMAIN hist :
              (i < j /\ IsElement(i) /\ IsElement(j)) =>
                  hist[i].ret.val[1].peer_asn # hist[j].ret.val[1].peer_asn
        /\ \A k, j \in DOMAIN hist :
              (k < j /\ HandedOut(k) /\ hist[j].op = "next") =>
                  /\ hist[j].to >= hist[j].from
                  /\ (\A m \in (k + 1)..(j - 1) : hist[m].op # "next") =>
                        log[hist[j].from].op = "bgpstream_get_next_record"
                  /\ hist[j].ret.tag = "Some" =>
                        log[hist[j].to].h > hist[k].ret.val[1].p_record

\* C36 witness: the iterator emitted the first of two elements of a record,
\* next_record() handed the record out with the second element unpulled,
\* and the next demand on the iterator pulled a record, found the stream at
\* its end and returned None: the second element was never emitted
C36_Witness ==
    /\ Len(hist) = 3
    /\ Len(feed0) >= 1
    /\ Len(feed0[1].elems) = 2
    /\ hist[1].op = "next" /\ hist[1].ret.tag = "Some"
    /\ hist[2].op = "next_record" /\ hist[2].from > hist[2].to
    /\ hist[3].op = "next"
    /\ hist[3].to >= hist[3].from
    /\ log[hist[3].from].op = "bgpstream_get_next_record"
    /\ hist[3].ret = RNone

====
